---- MODULE Spec2Model ----
(***************************************************************************)
(* Model of swe_agent/sandbox/docker_sandbox.py: one DockerSandbox         *)
(* controller, the container runtime it shells out to, and the local       *)
(* workspaces it allocates.  Every coroutine is cut at its awaits: one     *)
(* action per await-delimited segment, with the outcome of the external    *)
(* command of that segment drawn from the outcomes the runtime can give.   *)
(*                                                                         *)
(* Specifications: Spec (create, exec, cleanup of one controller), SpecG   *)
(* (the same with get_patch and commits made inside the sandbox), SpecOnce *)
(* (a controller that is created once, with every command and with         *)
(* run_swe_agent), SpecCfg (a controller given any configuration),         *)
(* SpecScope and SpecScopeFair (the controller used with `async with`),    *)
(* Spec2 (two controllers interleaved at their awaits), SpecX (the         *)
(* artifact extractor applied to workspaces on disk), SpecR (the reward    *)
(* function of swe_agent/reward/swe_reward.py applied to patches), SpecCmp *)
(* (its patch comparison alone), SpecTimeout (exec called with a timeout   *)
(* argument), SpecTasks (two coroutines awaiting on one controller),       *)
(* SpecResponder and SpecResponderFair (mock_model_responder of            *)
(* swe_agent/verify_subprocess.py) and SpecVerify (its run_verification).  *)
(* PatchExtractor is not part of the sources: its strategies follow        *)
(* section 4.4 of the specification.                                       *)
(***************************************************************************)
EXTENDS Integers, Sequences, FiniteSets, TLC

(* ---- bounds ---- *)

\* create() calls that get as far as allocating a workspace; once that many
\* were made the caller calls create() no more
MaxCreates == 2

(* ---- values ---- *)

\* Python's None: as a container id / name / directory, and as an Optional[bool]
NoId == 0
None == "None"
Absent == "absent"

FileNames == {"a.py", "b.py"}
Contents == {"x=1", "x=2", "y=1"}

\* A file tree: every file name has a content or is absent.
Tree == [FileNames -> Contents \cup {Absent}]
EmptyTree == [f \in FileNames |-> Absent]
TreeAB == [f \in FileNames |-> IF f = "a.py" THEN "x=1" ELSE "y=1"]

\* The repo_content arguments the caller passes to create():
\* None (given = FALSE), {} and a non-empty mapping of two files.
NoContent == [given |-> FALSE, tree |-> EmptyTree]
RepoInputs == {NoContent} \cup {[given |-> TRUE, tree |-> t] : t \in {EmptyTree, TreeAB}}

\* Workspaces, instance names and container ids are fresh per create().
Ids == 1..MaxCreates

\* Outcomes of one runtime subcommand run under asyncio.wait_for:
\* exit 0, exit non-zero, the wait timed out, the spawn itself raised.
CmdOutcomes == {"ok", "nonzero", "timeout", "spawn_error"}

\* Shell commands the caller runs through exec(): `false` and
\* `echo x=2 > a.py`.
Commands == {"false", "edit"}

\* With get_patch among the calls, also `git add -A && git commit -m c`.
CommandsG == Commands \cup {"commit"}

\* For a controller that is created once, two more: the compound
\* `echo x=2 > a.py && git add -A && git commit -m c`, and a tool run that
\* leaves `output/result.patch`.
CommandsOnce == CommandsG \cup {"edit_commit", "write_patch"}

VARIABLES
  container_id,      \* self.container_id
  container_name,    \* self.container_name
  temp_dir,          \* self._temp_dir
  docker_available,  \* self._docker_available
  containers,        \* runtime: state of each container ever requested
  dirs,              \* local storage: each temporary workspace
  fresh,             \* how many workspaces/names/ids have been handed out
  pc,                \* where the coroutine in flight is suspended
  call,              \* the call in flight, or the last one that returned
  lifecycle,         \* Uninitialized / Ready / Terminated
  cleanups_done,     \* cleanup() calls returned since the last create()
  ws_allocated,      \* workspace the last create() allocated, if any
  other,             \* with two controllers: the fields of the suspended one
  config,            \* self.config, the DockerSandboxConfig given to __init__
  scope,             \* with `async with`: where the block is, what ended it
  io,                \* a function of the other modules: its arguments, its result
  task               \* with two coroutines on one controller: the suspended one

ctrl == <<container_id, container_name, temp_dir, docker_available>>
world == <<containers, dirs, fresh>>
ghost == <<pc, call, lifecycle, cleanups_done, ws_allocated>>
vars == <<container_id, container_name, temp_dir, docker_available,
          containers, dirs, fresh,
          pc, call, lifecycle, cleanups_done, ws_allocated,
          other, config, scope, io, task>>
\* What a call of one controller leaves alone: the other controller, the
\* configuration, the block the controller is used in, the functions of
\* the other modules, and the other coroutine on this controller.
aside == <<other, config, scope, io, task>>

(* ---- the local workspace and its version control ---- *)

\* Artifact files the tool can leave in an output directory: one in the
\* folder named after the instance "test-001", one with the conventional name.
ArtifactNames == {"test-001/test-001.patch", "result.patch"}

\* What an artifact file can hold: nothing, or one of two patches.
PatchTexts == {"P1", "P2"}
ArtifactContents == PatchTexts \cup {""}

\* An output directory: missing, or a directory with some artifact files.
NoOutput == [exists |-> FALSE, files |-> [n \in ArtifactNames |-> Absent]]
OutputDirs ==
  {NoOutput} \cup
  {[exists |-> TRUE, files |-> f] :
     f \in [ArtifactNames -> ArtifactContents \cup {Absent}]}

\* A workspace: its files, its version control (index and commits, the
\* first commit being the baseline), its `output` subdirectory, and whether
\* the tool's configuration file swe_agent_config.yaml is in it.
NoDir == [exists |-> FALSE, files |-> EmptyTree, repo |-> FALSE,
          index |-> EmptyTree, commits |-> <<>>, output |-> NoOutput,
          yaml |-> FALSE]

\* tempfile.mkdtemp: a fresh, empty directory
NewDir == [NoDir EXCEPT !.exists = TRUE]

HeadTree(w) == IF w.commits = <<>> THEN EmptyTree ELSE w.commits[Len(w.commits)]

\* Whether `cd dir && git <cmd>` can exit 0 in workspace w.
GitCanSucceed(w, cmd) ==
  CASE cmd = "init" -> w.exists
    [] cmd = "config_email" -> w.exists /\ w.repo
    [] cmd = "config_name" -> w.exists /\ w.repo
    [] cmd = "add" -> w.exists /\ w.repo
    [] cmd = "commit" -> w.exists /\ w.repo /\ w.index # HeadTree(w)

\* The workspace after `git <cmd>` exited 0.
GitEffect(w, cmd) ==
  CASE cmd = "init" -> [w EXCEPT !.repo = TRUE]
    [] cmd = "config_email" -> w
    [] cmd = "config_name" -> w
    [] cmd = "add" -> [w EXCEPT !.index = w.files]
    [] cmd = "commit" -> [w EXCEPT !.commits = Append(w.commits, w.index)]

\* _exec_local (lines 276-286): run one local shell command; a non-zero exit
\* is logged and otherwise ignored, the caller goes on.
exec_local(w, cmd, outcome) ==
  IF outcome = "ok" THEN GitEffect(w, cmd) ELSE w

\* The five commands of _init_repo (lines 268-272), in order.
InitRepoCmds == <<"init", "config_email", "config_name", "add", "commit">>

RECURSIVE RunLocal(_, _, _)
\* The workspace after the first n commands of _init_repo ended as outs says.
RunLocal(w, outs, n) ==
  IF n = 0 THEN w
  ELSE exec_local(RunLocal(w, outs, n - 1), InitRepoCmds[n], outs[n])

\* Outcome vectors the local git can produce from workspace w: a command can
\* only exit 0 where git would; it can fail anywhere (no git binary, no
\* identity, an unwritable directory, nothing to commit).
LocalOutcomes(w) ==
  {outs \in [1..Len(InitRepoCmds) -> {"ok", "fail"}] :
     \A n \in 1..Len(InitRepoCmds) :
       outs[n] = "ok" => GitCanSucceed(RunLocal(w, outs, n - 1), InitRepoCmds[n])}

\* The order in which a mapping's items are written (dict insertion order).
WriteOrder == <<"a.py", "b.py">>

\* The tree after the first n files of the mapping were written.
Written(tree, n) ==
  [f \in FileNames |->
     IF \E i \in 1..n : WriteOrder[i] = f THEN tree[f] ELSE Absent]

\* The trees the loop of file writes (lines 261-265) can leave when an
\* OSError cuts it short: the files written before the one that failed.
PartialWrites(tree) ==
  {Written(tree, n) : n \in 0..(Len(WriteOrder) - 1)} \ {tree}

\* `if repo_content:` (line 137): None and the empty mapping are falsy.
Truthy(rc) == rc.given /\ rc.tree # EmptyTree

(* ---- artifact extraction ---- *)

\* Instance identifiers handed to the extractor: the empty one get_patch
\* passes (line 386), the one the artifact folder is named after, another.
InstanceIds == {"", "test-001", "test-002"}

\* A patch: the absence signal, the content of an artifact file, or the
\* difference of a working tree, given by the files it names.
NoPatch == [kind |-> "none", text |-> "", names |-> {}]
FilePatch(text) == [kind |-> "file", text |-> text, names |-> {}]
DiffPatch(names) == [kind |-> "diff", text |-> "", names |-> names]

\* The arguments of PatchExtractor(output_dir, instance_id, repo_path):
\* the directories as workspace indices, NoId for a path that was not given
\* or does not exist.
NoArgs == [output_dir |-> NoId, instance_id |-> "", repo_path |-> NoId]

\* The artifact file named after an instance identifier.
NamedAfter(instance_id) ==
  IF instance_id = "test-001" THEN {"test-001/test-001.patch"} ELSE {}

\* The artifact files strategy 1 looks at, in order: the one named after
\* the instance, then the conventional one.
Candidates(instance_id) ==
  (IF NamedAfter(instance_id) = {} THEN <<>> ELSE <<"test-001/test-001.patch">>)
    \o <<"result.patch">>

\* Whether an artifact file is present and non-empty.
Yields(out, n) == out.exists /\ out.files[n] \in PatchTexts

\* Strategy 1, the declared-artifact file: the content of the first
\* candidate that is present and non-empty, else nothing.
FromArtifact(out, instance_id) ==
  LET cs == Candidates(instance_id)
      hit == {i \in 1..Len(cs) : Yields(out, cs[i])}
  IN IF hit = {} THEN NoPatch
     ELSE LET i == CHOOSE j \in hit : \A l \in hit : j <= l
          IN FilePatch(out.files[cs[i]])

\* Whether a workspace holds a version-control history.
HasHistory(w) == w.exists /\ w.repo /\ w.commits # <<>>

\* The files in which the working tree differs from the baseline commit.
ChangedSinceBaseline(w) == {f \in FileNames : w.files[f] # w.commits[1][f]}

\* Strategy 2 with the latest commit as its reference instead of the baseline.
FromDiffAgainstHead(w, given) ==
  IF given /\ HasHistory(w) /\ {f \in FileNames : w.files[f] # HeadTree(w)[f]} # {}
  THEN DiffPatch({f \in FileNames : w.files[f] # HeadTree(w)[f]})
  ELSE NoPatch

\* Strategy 2, the version-control difference: for a workspace path that was
\* supplied and holds a history, the difference if it is non-empty.
FromDiff(w, given) ==
  IF given /\ HasHistory(w) /\ ChangedSinceBaseline(w) # {}
  THEN DiffPatch(ChangedSinceBaseline(w))
  ELSE NoPatch

\* The strategies in the opposite order: the difference first.
extract_diff_first(out, instance_id, w, given) ==
  IF FromDiff(w, given) # NoPatch THEN FromDiff(w, given)
  ELSE FromArtifact(out, instance_id)

\* extract with a missing artifact and a missing history reported as errors.
extract_strict(out, instance_id, w, given) ==
  IF FromArtifact(out, instance_id) # NoPatch THEN FromArtifact(out, instance_id)
  ELSE IF given /\ HasHistory(w) THEN FromDiff(w, given)
  ELSE [kind |-> "error", text |-> "", names |-> {}]

\* PatchExtractor.extract: the first strategy that yields content wins,
\* else the absence signal.
extract(out, instance_id, w, given) ==
  IF FromArtifact(out, instance_id) # NoPatch THEN FromArtifact(out, instance_id)
  ELSE FromDiff(w, given)

(* ---- the configuration ---- *)

\* A dict of environment variables with no entry.
NoEnv == [k \in {} |-> ""]

\* DockerSandboxConfig (lines 41-67) with its defaults, the fields the
\* controller reads.  memory_limit is a string handed to the runtime as it is.
DefaultConfig ==
  [memory_limit |-> "8g", cpu_count |-> 4,
   startup_timeout |-> 60, execution_timeout |-> 1800,
   model_proxy_host |-> "127.0.0.1", model_proxy_port |-> 8080,
   env_vars |-> NoEnv]

\* The dicts a caller may pass as env_vars: none, a variable of its own, or
\* one that bears the name of the model endpoint variable.
EnvVarsInputs ==
  {NoEnv, [EXTRA |-> "1"], [OPENAI_API_BASE |-> "http://10.0.0.1:9/v1"]}

\* Configurations a caller may construct: the dataclass accepts any value
\* for any field, non-positive limits and timeouts included.
Configs ==
  {[memory_limit |-> m, cpu_count |-> n,
    startup_timeout |-> st, execution_timeout |-> et,
    model_proxy_host |-> "127.0.0.1", model_proxy_port |-> 8080,
    env_vars |-> ev] :
     m \in {"0g", "8g"}, n \in {0, 4}, st \in {-1, 0, 60}, et \in {0, 1800},
     ev \in EnvVarsInputs}

\* The f-string of line 238.
base_url(host, port) == "http://" \o host \o ":" \o ToString(port) \o "/v1"

\* {**a, **b}: the entries of both dicts, those of b where both have the key.
dict_merge(a, b) ==
  [k \in DOMAIN a \cup DOMAIN b |-> IF k \in DOMAIN b THEN b[k] ELSE a[k]]

\* _build_docker_run_cmd (lines 237-244): the environment handed to
\* `docker run` with -e, config.env_vars unpacked after the two fixed entries.
docker_run_env(cfg) ==
  dict_merge([OPENAI_API_BASE |-> base_url(cfg.model_proxy_host,
                                           cfg.model_proxy_port),
              OPENAI_API_KEY |-> "verl-swe-agent"],
             cfg.env_vars)

\* asyncio.wait_for(..., timeout): with a timeout that is not positive the
\* wait is over before the child can end, so of the outcomes a command can
\* have only the timeout is left (and the spawn error, raised before the wait).
wait_for(timeout, outcomes) ==
  IF timeout > 0 THEN outcomes ELSE outcomes \cap {"timeout", "spawn_error"}

\* The local client process (`docker run`, `docker exec`) when the function
\* that spawned it returns: never spawned, ended by itself, or, the wait
\* having timed out, still running: wait_for cancels communicate(), and no
\* except clause (lines 214-222, 318-320) kills or reaps the child.
process_after_wait(outcome) ==
  CASE outcome = "spawn_error" -> "none"
    [] outcome = "timeout" -> "running"
    [] OTHER -> "exited"

\* A controller that is used without `async with`.
NoScope == [phase |-> "none", exc |-> None, by |-> "", propagated |-> None]

\* No function of the other modules is being applied.
NoIO == [fn |-> "none"]

\* exec's `timeout: Optional[int] = None` (line 288): the argument left out.
NoTimeout == [given |-> FALSE, value |-> 0]

(* ---- calls ---- *)

\* The record kept of a call: the runtime subcommands it issued, the
\* filesystem operations it made, what it returned or raised (for exec: the
\* exit code, stdout and stderr, and how its wait ended), whether the
\* call that returned before it was a cleanup(), the outcome of
\* `docker image inspect`, the outcome of `docker run`
\* and the environment it was given, the state of the local client process
\* when the call returned, where the `async with` block was when the
\* call was made, where the other coroutine on this controller was then,
\* the timeout argument of exec, the bound its wait was given, the
\* seconds the wait took, the instance its `docker exec` named, and what
\* the last get_patch() before the call returned.
NewCall(op) ==
  [op |-> op, arg |-> NoContent, cmd |-> "", cmds |-> <<>>, fsops |-> <<>>,
   result |-> "pending", detail |-> "", ret |-> 0,
   avail |-> None, image |-> None, build |-> None,
   stdout |-> "", stderr |-> "", waited |-> "",
   xargs |-> NoArgs, patch |-> NoPatch,
   after_cleanup |-> (op = "cleanup" /\ call.op = "cleanup"),
   inspect |-> None, run |-> None, env |-> NoEnv, proc |-> "none",
   scoped |-> scope.phase, during |-> task.pc,
   timeout |-> NoTimeout, bound |-> 0, elapsed |-> 0, target |-> NoId,
   seen |-> IF call.op = "get_patch"
            THEN [called |-> TRUE, patch |-> call.patch]
            ELSE call.seen]

NoCall == [op |-> "none", arg |-> NoContent, cmd |-> "", cmds |-> <<>>, fsops |-> <<>>,
           result |-> "ok", detail |-> "", ret |-> 0,
           avail |-> None, image |-> None, build |-> None,
           stdout |-> "", stderr |-> "", waited |-> "",
           xargs |-> NoArgs, patch |-> NoPatch,
           after_cleanup |-> FALSE,
           inspect |-> None, run |-> None, env |-> NoEnv, proc |-> "none",
           scoped |-> "none", during |-> "idle",
           timeout |-> NoTimeout, bound |-> 0, elapsed |-> 0, target |-> NoId,
           seen |-> [called |-> FALSE, patch |-> NoPatch]]

\* One coroutine only: no other is suspended or has returned.
NoTask == [pc |-> "idle", call |-> NoCall]

Returns(c, ret) == [c EXCEPT !.result = "ok", !.ret = ret]
Raises(c, exc, detail) == [c EXCEPT !.result = exc, !.detail = detail]

\* A single controller has no other beside it.
NoOther == "none"

Init ==
  /\ container_id = NoId
  /\ container_name = NoId
  /\ temp_dir = NoId
  /\ docker_available = None
  /\ containers = [i \in Ids |-> Absent]
  /\ dirs = [i \in Ids |-> NoDir]
  /\ fresh = 0
  /\ pc = "idle"
  /\ call = NoCall
  /\ lifecycle = "Uninitialized"
  /\ cleanups_done = 0
  /\ ws_allocated = NoId
  /\ other = NoOther
  /\ config = DefaultConfig
  /\ scope = NoScope
  /\ io = NoIO
  /\ task = NoTask

(* ---- create ---- *)

\* The probe with only a positive answer kept: a negative one is asked again.
check_docker_available_reprobes(cached, probe) ==
  IF cached = "True" THEN cached
  ELSE IF probe = "ok" THEN "True" ELSE "False"

\* _check_docker_available (lines 85-102): the cached answer if there is one,
\* else `docker version` exited 0; any exception of the probe counts as False.
check_docker_available(cached, probe) ==
  IF cached # None THEN cached
  ELSE IF probe = "ok" THEN "True" ELSE "False"

\* The check of line 153 with the raise left out.
ensure_docker_available_never_raises(avail) == FALSE

\* _ensure_docker_available (lines 153-154): raise unless available.
ensure_docker_available_raises(avail) == avail # "True"

\* create, step 1 (lines 129-130): probe the runtime, fail if unreachable.
\* The argument is first read in step 3 and is drawn there.
create ==
  /\ pc = "idle"
  /\ fresh < MaxCreates
  /\ \E probe \in CmdOutcomes :
       LET avail == check_docker_available(docker_available, probe)
           c == [NewCall("create") EXCEPT
                   !.avail = avail,
                   !.cmds = IF docker_available = None THEN <<"version">> ELSE <<>>]
       IN /\ docker_available' = avail
          /\ IF ensure_docker_available_raises(avail)
             THEN /\ call' = Raises(c, "RuntimeError", "DockerUnavailable")
                  /\ pc' = "idle"
             ELSE /\ call' = c
                  /\ pc' = "ensure_image"
  /\ cleanups_done' = 0
  /\ ws_allocated' = NoId
  /\ UNCHANGED <<container_id, container_name, temp_dir, world, lifecycle, aside>>

\* _check_image_exists (lines 104-115): `docker image inspect` exited 0; any
\* exception (timeout included) counts as "not there".
check_image_exists(inspect) == inspect = "ok"

\* create, step 2 (lines 132-133, 164-172): inspect the image; build if absent.
\* Whether the image is there is the runtime's affair (an operator may build
\* or remove it between two calls), so any outcome can meet any call.
ensure_image_available ==
  /\ pc = "ensure_image"
  /\ \E inspect \in CmdOutcomes :
       /\ LET found == check_image_exists(inspect)
          IN /\ call' = [call EXCEPT !.cmds = Append(@, "inspect"),
                                     !.inspect = inspect,
                                     !.image = IF found THEN "True" ELSE "False"]
             /\ pc' = IF found THEN "workspace" ELSE "build_image"
  /\ UNCHANGED <<ctrl, world, lifecycle, cleanups_done, ws_allocated, aside>>

\* _build_image with the exit-code test of line 450 left out.
build_image_ignores_exit_code(build) ==
  CASE build = "ok" -> None
    [] build = "nonzero" -> None
    [] build = "timeout" -> "TimeoutError"
    [] build = "spawn_error" -> "OSError"

\* _build_image (lines 440-451): what the build's outcome raises, if anything.
\* The wait has no except clause: a timeout or a spawn error leaves as it is.
build_image_raises(build) ==
  CASE build = "ok" -> None
    [] build = "nonzero" -> "RuntimeError"
    [] build = "timeout" -> "TimeoutError"
    [] build = "spawn_error" -> "OSError"

\* _build_image (lines 427-453): without a Dockerfile beside the module no
\* build is run; else `docker build` is run and waited for.
build_image ==
  /\ pc = "build_image"
  /\ \E dockerfile_exists \in BOOLEAN :
       IF ~dockerfile_exists
       THEN /\ call' = Raises([call EXCEPT !.build = "no_dockerfile"],
                              "RuntimeError", "DockerfileNotFound")
            /\ pc' = "idle"
       ELSE \E build \in CmdOutcomes :
              LET c == [call EXCEPT !.cmds = Append(@, "build"), !.build = build]
                  exc == build_image_raises(build)
              IN IF exc # None
                 THEN /\ call' = Raises(c, exc, "ImageBuildFailed")
                      /\ pc' = "idle"
                 ELSE /\ call' = c
                      /\ pc' = "workspace"
  /\ UNCHANGED <<ctrl, world, lifecycle, cleanups_done, ws_allocated, aside>>

\* _init_repo (lines 251-274) on a fresh directory: write every mapped file,
\* then run the five git commands, whatever each of them exits with.
init_repo(tree, outs) ==
  RunLocal([NewDir EXCEPT !.files = tree], outs, Len(InitRepoCmds))

\* One fixed path in place of a fresh directory.
mkdtemp_fixed(n) == 1

\* tempfile.mkdtemp (line 136): a directory no earlier call was given, the
\* n-th call the one after the n directories handed out so far.
mkdtemp(n) == n + 1

\* create, step 3 (lines 136-138): allocate the workspace and seed it from
\* the repo_content the caller passed.
prepare_workspace(repo_content) ==
  /\ pc = "workspace"
  /\ LET d == mkdtemp(fresh)
         rc == repo_content
         c == [call EXCEPT !.arg = repo_content, !.fsops = Append(@, "mkdtemp")]
     IN /\ fresh' = d
        /\ temp_dir' = d
        /\ ws_allocated' = d
        /\ IF Truthy(rc)
           THEN \/ \E outs \in LocalOutcomes([NewDir EXCEPT !.files = rc.tree]) :
                     /\ dirs' = [dirs EXCEPT ![d] = init_repo(rc.tree, outs)]
                     /\ call' = [c EXCEPT !.fsops = @ \o <<"write", "git">>]
                     /\ pc' = "start"
                \/ \E t \in PartialWrites(rc.tree) :
                     /\ dirs' = [dirs EXCEPT ![d] = [NewDir EXCEPT !.files = t]]
                     /\ call' = Raises([c EXCEPT !.fsops = Append(@, "write")],
                                       "OSError", "WriteFailed")
                     /\ pc' = "idle"
           ELSE /\ dirs' = [dirs EXCEPT ![d] = NewDir]
                /\ call' = c
                /\ pc' = "start"
  /\ UNCHANGED <<container_id, container_name, docker_available, containers,
                 lifecycle, cleanups_done, aside>>

\* _create_container with neither the exit-code test nor the except clause.
create_container_never_raises(run) == None

\* _create_container (lines 188-222): what the outcome of `docker run` raises.
\* A non-zero exit and a timed-out wait become RuntimeError; a spawn error
\* is not caught.
create_container_raises(run) ==
  CASE run = "ok" -> None
    [] run = "nonzero" -> "RuntimeError"
    [] run = "timeout" -> "RuntimeError"
    [] run = "spawn_error" -> "OSError"

\* _create_container once `docker run` was spawned and its wait ended with
\* outcome run (lines 194-222), and create's assignment of the id returned
\* (lines 142-145), for the instance named k, c0 being the call so far.  The
\* runtime may still start an instance whose `docker run` wait timed out.
create_container_result(c0, k, run, late) ==
  LET c == [c0 EXCEPT !.run = run, !.proc = process_after_wait(run)]
      exc == create_container_raises(run)
  IN /\ containers' = IF run = "ok" \/ late
                      THEN [containers EXCEPT ![k] = "running"]
                      ELSE containers
     /\ IF exc # None
        THEN /\ call' = Raises(c, exc, IF run = "timeout"
                                       THEN "CreationTimeout"
                                       ELSE "CreationFailed")
             /\ UNCHANGED <<container_id, lifecycle>>
        ELSE /\ call' = Returns(c, k)
             /\ container_id' = k
             /\ lifecycle' = "Ready"
     /\ pc' = "idle"

\* create, step 4 (lines 140-145, 174-222): name the instance and start it,
\* bound to the workspace of step 3, whose index the name and the instance
\* share.
create_container ==
  /\ pc = "start"
  /\ LET k == temp_dir
     IN /\ container_name' = k
        /\ \E run \in wait_for(config.startup_timeout, CmdOutcomes) :
           \E late \in IF run = "timeout" THEN BOOLEAN ELSE {FALSE} :
             create_container_result(
               [call EXCEPT !.cmds = Append(@, "run"),
                            !.env = docker_run_env(config)], k, run, late)
  /\ UNCHANGED <<temp_dir, docker_available, dirs, fresh, cleanups_done,
                 ws_allocated, aside>>

(* ---- exec ---- *)

\* What a shell command leaves when it runs to its end inside the container,
\* whose working directory is the bound workspace: the workspace, the exit
\* code, and what it wrote to stdout and stderr.
ShellRun(w, cmd) ==
  CASE cmd = "true" -> [w |-> w, rc |-> 0, out |-> "", err |-> ""]
    [] cmd = "false" -> [w |-> w, rc |-> 1, out |-> "", err |-> ""]
    [] cmd = "edit" -> [w |-> [w EXCEPT !.files["a.py"] = "x=2"], rc |-> 0,
                        out |-> "", err |-> ""]
    [] cmd = "commit" ->
         IF ~GitCanSucceed(w, "add")
         THEN [w |-> w, rc |-> 1, out |-> "", err |-> "not a git repository"]
         ELSE LET a == GitEffect(w, "add")
              IN IF GitCanSucceed(a, "commit")
                 THEN [w |-> GitEffect(a, "commit"), rc |-> 0,
                       out |-> "committed", err |-> ""]
                 ELSE [w |-> a, rc |-> 1, out |-> "nothing to commit", err |-> ""]
    [] cmd = "edit_commit" ->
         LET e == [w EXCEPT !.files["a.py"] = "x=2"]
         IN IF ~GitCanSucceed(e, "add")
            THEN [w |-> e, rc |-> 1, out |-> "", err |-> "not a git repository"]
            ELSE LET a == GitEffect(e, "add")
                 IN IF GitCanSucceed(a, "commit")
                    THEN [w |-> GitEffect(a, "commit"), rc |-> 0,
                          out |-> "committed", err |-> ""]
                    ELSE [w |-> a, rc |-> 1, out |-> "nothing to commit", err |-> ""]
    [] cmd = "write_patch" ->
         [w |-> [w EXCEPT !.output = [exists |-> TRUE,
                                      files |-> [@.files EXCEPT !["result.patch"] = "P1"]]],
          rc |-> 0, out |-> "", err |-> ""]
    [] cmd = "sweagent" ->
         IF ~w.yaml
         THEN [w |-> w, rc |-> 2, out |-> "", err |-> "config not found"]
         ELSE [w |-> [w EXCEPT !.files["a.py"] = "x=2",
                               !.output = [exists |-> TRUE,
                                           files |-> [@.files EXCEPT !["result.patch"] = "P1"]]],
               rc |-> 0, out |-> "trajectory", err |-> "warnings"]

\* `docker exec` against an instance that is not running: the client exits
\* non-zero with the daemon's error text, the command never runs.
NotRunning(w) == [w |-> w, rc |-> 1, out |-> "", err |-> "is not running"]

\* Signals that can end the `docker exec` client before the wait is over
\* (SIGHUP, SIGKILL).
Signals == {1, 9}

\* process.returncode (line 316) of a client that was killed by signal sig:
\* asyncio reports the negated signal number.
returncode_of_signal(sig) == 0 - sig

\* The stderr text of the timeout result (line 320).
TimedOutText == "Command timed out"

\* exec refusing every call, bound or not.
exec_rejects_always(cid) == TRUE

\* exec behind a lock that turns a second caller away while one is waiting.
exec_rejects_while_busy(cid) == cid = NoId \/ task.pc = "exec_wait"

\* exec without the guard of lines 298-299.
exec_never_rejects(cid) == FALSE

\* exec (lines 298-299): `if not self.container_id`.
exec_rejects(cid) == cid = NoId

\* exec with a check of the exit status added: a non-zero status is raised.
exec_returns_checked(c, rc, out, err) ==
  IF rc # 0 THEN Raises(c, "CalledProcessError", "")
  ELSE [Returns(c, rc) EXCEPT !.stdout = out, !.stderr = err]

\* exec (line 316): the exit status, stdout and stderr are returned as they
\* are, whatever the status.
exec_returns(c, rc, out, err) ==
  [Returns(c, rc) EXCEPT !.stdout = out, !.stderr = err]

\* exec without its except clause: the TimeoutError of the wait leaves exec.
exec_timeout_propagates(c) == Raises(c, "TimeoutError", "")

\* exec (lines 318-320): `except asyncio.TimeoutError` returns the sentinel.
exec_except_TimeoutError(c) ==
  [Returns(c, -1) EXCEPT !.stdout = "", !.stderr = TimedOutText,
                         !.detail = "timed out"]

\* run_swe_agent (lines 354-359): the exit code exec returned, and its stdout
\* followed by its stderr as one text; what exec raises is not caught.
run_swe_agent_returns(c) ==
  IF c.result = "ok"
  THEN [c EXCEPT !.stdout = c.stdout \o c.stderr, !.stderr = ""]
  ELSE c

\* What the caller of exec makes of what exec returned or raised: the user
\* of the controller has it as it is, run_swe_agent returns from it.
exec_result(c) ==
  IF c.op = "run_swe_agent" THEN run_swe_agent_returns(c) ELSE c

\* `timeout is None` in place of the truth test: a 0 that was passed is kept.
timeout_if_given(timeout, default) ==
  IF timeout.given THEN timeout.value ELSE default

\* exec (line 301): `timeout = timeout or self.config.execution_timeout`.
\* None and 0 are both false, so either is replaced by the default.
timeout_or(timeout, default) ==
  IF timeout.given /\ timeout.value # 0 THEN timeout.value ELSE default

\* How the spawn of `docker exec` and the wait for it can end: the client
\* exits, a signal ends it, the wait times out, the spawn itself raises.
ExecOutcomes == {"exit", "signal", "timeout", "spawn_error"}

\* Seconds the command takes to run to its end inside the instance: 1, or
\* longer than any timeout of the default configuration.
Durations == {1, 2000}

\* asyncio.wait_for(process.communicate(), timeout) (lines 311-314) on a
\* client that ends after dur seconds, by itself or by a signal: the wait
\* ends with the client, unless the timeout is over first.
wait_ends(timeout, dur) ==
  IF dur < timeout THEN {"exit", "signal"} ELSE {"timeout"}

\* The seconds exec spent in its wait: none when the spawn failed, the
\* bound when the wait timed out, else the time the client took.
wait_took(timeout, dur, out) ==
  CASE out = "spawn_error" -> 0
    [] out = "timeout" -> IF timeout > 0 THEN timeout ELSE 0
    [] OTHER -> dur

\* exec (lines 301-320) from the spawn on, as call c, against instance k on
\* local storage ds, for the outcomes outs of the spawn and the wait.  The wait is bounded by the timeout argument, or by
\* config.execution_timeout (line 301).  `docker exec` runs the command in
\* instance k; a wait that times out returns the sentinel and leaves the
\* inner process running, so its effect may or may not have landed.  The same
\* holds when the client is killed by a signal.  A spawn that fails raises
\* OSError, which exec does not catch.
exec_wait_on(c, cmd, ds, k, outs) ==
  LET live == k \in Ids /\ containers[k] = "running" /\ ds[k].exists
      r == IF live THEN ShellRun(ds[k], cmd) ELSE NotRunning(NoDir)
      effect == live /\ r.w # ds[k]
      bound == timeout_or(c.timeout, config.execution_timeout)
  IN
  \E dur \in Durations :
  \E out \in wait_for(bound, outs)
               \cap (wait_ends(bound, dur) \cup {"spawn_error"}) :
  \E landed \in IF out \in {"timeout", "signal"} /\ effect
                THEN BOOLEAN ELSE {out # "spawn_error"} :
  \E sig \in IF out = "signal" THEN Signals ELSE {0} :
    LET c1 == [c EXCEPT !.cmds = <<"exec">>, !.waited = out,
                        !.proc = process_after_wait(out),
                        !.target = k,
                        !.bound = bound,
                        !.elapsed = wait_took(bound, dur, out)]
    IN /\ dirs' = IF effect /\ landed
                  THEN [ds EXCEPT ![k] = r.w]
                  ELSE ds
       /\ call' = exec_result(
                   CASE out = "exit" ->
                          exec_returns(c1, r.rc, r.out, r.err)
                     [] out = "signal" ->
                          exec_returns(c1, returncode_of_signal(sig), "", "")
                     [] out = "timeout" -> exec_except_TimeoutError(c1)
                     [] out = "spawn_error" -> Raises(c1, "OSError", ""))

\* exec (lines 298-320) from its guard on, as call c, on local storage ds:
\* without a container id it raises, else it runs against the instance the
\* id names.  run_swe_agent passes config.execution_timeout as the timeout
\* (line 354).
exec_on(c, cmd, ds) ==
  IF exec_rejects(container_id)
  THEN /\ call' = exec_result(Raises(c, "RuntimeError", "ContainerNotCreated"))
       /\ dirs' = ds
  ELSE exec_wait_on(c, cmd, ds, container_id, ExecOutcomes)

\* exec (lines 288-320), called by the user of the controller.
exec(cmd) ==
  /\ pc = "idle"
  /\ exec_on([NewCall("exec") EXCEPT !.cmd = cmd], cmd, dirs)
  /\ UNCHANGED <<ctrl, containers, fresh, pc, lifecycle, cleanups_done,
                 ws_allocated, aside>>

\* exec(cmd, timeout) (lines 288-320), called with a timeout argument.
exec_with(cmd, timeout) ==
  /\ pc = "idle"
  /\ exec_on([NewCall("exec") EXCEPT !.cmd = cmd, !.timeout = timeout], cmd, dirs)
  /\ UNCHANGED <<ctrl, containers, fresh, pc, lifecycle, cleanups_done,
                 ws_allocated, aside>>

(* ---- run_swe_agent ---- *)

\* run_swe_agent (lines 322-359): write swe_agent_config.yaml into the
\* workspace, then exec the tool in the instance.  Without a workspace the
\* path cannot be built (os.path.join(None, ...) raises TypeError); in a
\* workspace that is gone, or on a full disk, open/write raises OSError.
run_swe_agent ==
  /\ pc = "idle"
  /\ LET c == [NewCall("run_swe_agent") EXCEPT !.cmd = "sweagent"]
         d == temp_dir
         cw == [c EXCEPT !.fsops = <<"write">>]
         ce == [cw EXCEPT !.timeout = [given |-> TRUE,
                                       value |-> config.execution_timeout]]
     IN IF d = NoId
        THEN /\ call' = Raises(c, "TypeError", "")
             /\ UNCHANGED dirs
        ELSE IF ~dirs[d].exists
        THEN /\ call' = Raises(cw, "OSError", "WriteFailed")
             /\ UNCHANGED dirs
        ELSE \/ /\ call' = Raises(cw, "OSError", "WriteFailed")
                /\ dirs' = [dirs EXCEPT ![d].yaml = TRUE]
             \/ exec_on(ce, "sweagent", [dirs EXCEPT ![d].yaml = TRUE])
  /\ UNCHANGED <<ctrl, containers, fresh, pc, lifecycle, cleanups_done,
                 ws_allocated, aside>>

(* ---- get_patch ---- *)

\* get_patch keeping what it extracted: a later call returns the same patch.
get_patch_extract_once(d) ==
  LET seen == NewCall("get_patch").seen
  IN IF seen.called /\ seen.patch # NoPatch THEN seen.patch
     ELSE extract(dirs[d].output, "", dirs[d], TRUE)

\* get_patch (lines 384-390): a new extractor is made on every call and run
\* on `<temp_dir>/output` and on the workspace as they are now.
get_patch_extract(d) ==
  extract(dirs[d].output, "", dirs[d], TRUE)

\* get_patch (lines 374-390): None without a workspace, else what the
\* extractor finds in `<temp_dir>/output` and in the workspace itself.
get_patch ==
  /\ pc = "idle"
  /\ LET c == NewCall("get_patch")
         d == temp_dir
     IN call' =
          IF temp_dir = NoId
          THEN Returns(c, 0)
          ELSE [Returns(c, 0) EXCEPT
                  !.xargs = [output_dir |-> IF dirs[d].output.exists THEN d ELSE NoId,
                             instance_id |-> "",
                             repo_path |-> d],
                  !.patch = get_patch_extract(d)]
  /\ UNCHANGED <<ctrl, world, pc, lifecycle, cleanups_done, ws_allocated, aside>>

(* ---- cleanup ---- *)

\* A narrower clause, `except RuntimeError`, in place of `except Exception`.
except_RuntimeError(exc) == exc = "RuntimeError"

\* `except Exception` (lines 413, 422): the exceptions it catches.  A timed-out
\* wait (asyncio.TimeoutError) and a failed spawn or removal (OSError) are
\* both subclasses of Exception.
except_Exception(exc) == exc \in {"TimeoutError", "OSError", "RuntimeError"}

\* What a runtime subcommand awaited in cleanup's try block raises.  Its exit
\* code is not looked at (lines 402, 410).
cleanup_wait_raises(outcome) ==
  CASE outcome = "ok" -> None
    [] outcome = "nonzero" -> None
    [] outcome = "timeout" -> "TimeoutError"
    [] outcome = "spawn_error" -> "OSError"

\* The container part without its finally clause: the id is kept.
container_id_kept(cid) == cid

\* `finally: self.container_id = None` (lines 415-416).
container_id_finally(cid) == NoId

\* `finally: self._temp_dir = None` (lines 424-425).
temp_dir_finally(d) == NoId

\* cleanup returns or raises: the bookkeeping common to its exits.
cleanup_exit ==
  /\ pc' = "idle"
  /\ lifecycle' = "Terminated"
  /\ cleanups_done' = IF cleanups_done < 2 THEN cleanups_done + 1 ELSE 2

\* cleanup, the workspace part (lines 418-425).  A failed rmtree leaves the
\* directory in place.
cleanup_temp_dir(c) ==
  /\ IF temp_dir # NoId /\ dirs[temp_dir].exists
     THEN \E rmtree \in {"ok", "error"} :
            LET c1 == [c EXCEPT !.fsops = Append(@, "rmtree")]
            IN /\ dirs' = IF rmtree = "ok"
                          THEN [dirs EXCEPT ![temp_dir] = NoDir]
                          ELSE dirs
               /\ temp_dir' = temp_dir_finally(temp_dir)
               /\ call' = IF rmtree = "error" /\ ~except_Exception("OSError")
                          THEN Raises(c1, "OSError", "rmtree")
                          ELSE Returns(c1, 0)
     ELSE /\ UNCHANGED <<temp_dir, dirs>>
          /\ call' = Returns(c, 0)
  /\ cleanup_exit

\* cleanup, leaving the try block of the container part (lines 413-416) with
\* exception exc, or with none: the finally clause, then either the exception
\* leaves cleanup or the workspace part runs.
cleanup_after_try(c, exc) ==
  /\ container_id' = container_id_finally(container_id)
  /\ IF exc # None /\ ~except_Exception(exc)
     THEN /\ call' = Raises(c, exc, "cleanup")
          /\ UNCHANGED <<temp_dir, dirs>>
          /\ cleanup_exit
     ELSE cleanup_temp_dir(c)

\* cleanup, up to the end of the wait for `docker stop` (lines 392-402).
\* Without a container id the container part is skipped.
cleanup ==
  /\ pc = "idle"
  /\ LET c == NewCall("cleanup")
     IN IF container_id # NoId
        THEN \E stop \in CmdOutcomes :
             \E landed \in IF stop = "timeout" THEN BOOLEAN ELSE {stop = "ok"} :
               LET c1 == [c EXCEPT !.cmds = Append(@, "stop")]
                   exc == cleanup_wait_raises(stop)
               IN /\ containers' =
                       IF landed /\ container_id \in Ids
                                 /\ containers[container_id] = "running"
                       THEN [containers EXCEPT ![container_id] = "stopped"]
                       ELSE containers
                  /\ IF exc # None
                     THEN cleanup_after_try(c1, exc)
                     ELSE /\ call' = c1
                          /\ pc' = "cleanup_rm"
                          /\ UNCHANGED <<container_id, temp_dir, dirs,
                                         lifecycle, cleanups_done>>
        ELSE /\ UNCHANGED <<container_id, containers>>
             /\ cleanup_temp_dir(c)
  /\ UNCHANGED <<container_name, docker_available, fresh, ws_allocated, aside>>

\* cleanup, from `docker rm -f` to the end (lines 404-425).
cleanup_rm ==
  /\ pc = "cleanup_rm"
  /\ \E rm \in CmdOutcomes :
     \E landed \in IF rm = "timeout" THEN BOOLEAN ELSE {rm = "ok"} :
       LET c1 == [call EXCEPT !.cmds = Append(@, "rm")]
       IN /\ containers' =
               IF landed /\ container_id \in Ids
                         /\ containers[container_id] # Absent
               THEN [containers EXCEPT ![container_id] = "removed"]
               ELSE containers
          /\ cleanup_after_try(c1, cleanup_wait_raises(rm))
  /\ UNCHANGED <<container_name, docker_available, fresh, ws_allocated, aside>>

(* ---- the specification ---- *)

TypeOK ==
  /\ container_id \in Ids \cup {NoId}
  /\ container_name \in Ids \cup {NoId}
  /\ temp_dir \in Ids \cup {NoId}
  /\ docker_available \in {None, "True", "False"}
  /\ containers \in [Ids -> {Absent, "running", "stopped", "removed"}]
  /\ \A d \in Ids : /\ dirs[d].files \in Tree
                     /\ dirs[d].index \in Tree
                     /\ Len(dirs[d].commits) <= 2
  /\ fresh \in 0..MaxCreates
  /\ pc \in {"idle", "ensure_image", "build_image", "workspace", "start",
             "run_wait", "exec_wait", "cleanup_rm"}
  /\ task.pc \in {"idle", "ensure_image", "build_image", "workspace", "start",
                  "run_wait", "exec_wait", "cleanup_rm"}
  /\ lifecycle \in {"Uninitialized", "Ready", "Terminated"}
  /\ config \in Configs
  /\ scope.phase \in {"none", "outside", "inside", "exiting", "left"}

Next ==
  \/ create
  \/ ensure_image_available
  \/ build_image
  \/ \E rc \in RepoInputs : prepare_workspace(rc)
  \/ create_container
  \/ \E cmd \in Commands : exec(cmd)
  \/ cleanup
  \/ cleanup_rm

Spec == Init /\ [][Next]_vars

\* The controller with get_patch among the calls its caller makes.
NextG ==
  \/ create
  \/ ensure_image_available
  \/ build_image
  \/ \E rc \in RepoInputs : prepare_workspace(rc)
  \/ create_container
  \/ \E cmd \in CommandsG : exec(cmd)
  \/ get_patch
  \/ cleanup
  \/ cleanup_rm

SpecG == Init /\ [][NextG]_vars

\* The controller as the lifecycle has it: create() is called once.
NextOnce ==
  \/ fresh = 0 /\ create
  \/ ensure_image_available
  \/ build_image
  \/ \E rc \in RepoInputs : prepare_workspace(rc)
  \/ create_container
  \/ \E cmd \in CommandsOnce : exec(cmd)
  \/ run_swe_agent
  \/ get_patch
  \/ cleanup
  \/ cleanup_rm

SpecOnce == Init /\ [][NextOnce]_vars

(* ---- exec with a timeout argument ---- *)

\* The timeout arguments the caller passes to exec(): none, 0, a bound
\* shorter and a bound longer than the configuration's execution timeout.
Timeouts ==
  {NoTimeout} \cup {[given |-> TRUE, value |-> v] : v \in {0, 5, 3000}}

\* The controller created once, its caller passing any of these timeouts.
NextTimeout ==
  \/ fresh = 0 /\ create
  \/ ensure_image_available
  \/ build_image
  \/ \E rc \in RepoInputs : prepare_workspace(rc)
  \/ create_container
  \/ \E cmd \in Commands, timeout \in Timeouts : exec_with(cmd, timeout)
  \/ cleanup
  \/ cleanup_rm

SpecTimeout == Init /\ [][NextTimeout]_vars

(* ---- a controller with any configuration ---- *)

\* The controller as __init__ leaves it (lines 73-83) when it is given a
\* configuration of the caller's making.
InitCfg ==
  /\ container_id = NoId
  /\ container_name = NoId
  /\ temp_dir = NoId
  /\ docker_available = None
  /\ containers = [i \in Ids |-> Absent]
  /\ dirs = [i \in Ids |-> NoDir]
  /\ fresh = 0
  /\ pc = "idle"
  /\ call = NoCall
  /\ lifecycle = "Uninitialized"
  /\ cleanups_done = 0
  /\ ws_allocated = NoId
  /\ other = NoOther
  /\ config \in Configs
  /\ scope = NoScope
  /\ io = NoIO
  /\ task = NoTask

NextCfg ==
  \/ fresh = 0 /\ create
  \/ ensure_image_available
  \/ build_image
  \/ \E rc \in RepoInputs : prepare_workspace(rc)
  \/ create_container
  \/ \E cmd \in Commands : exec(cmd)
  \/ cleanup
  \/ cleanup_rm

SpecCfg == InitCfg /\ [][NextCfg]_vars

(* ---- the controller as an async context manager ---- *)

\* `async with DockerSandbox(config) as sandbox:` before the block is entered.
InitScope ==
  /\ container_id = NoId
  /\ container_name = NoId
  /\ temp_dir = NoId
  /\ docker_available = None
  /\ containers = [i \in Ids |-> Absent]
  /\ dirs = [i \in Ids |-> NoDir]
  /\ fresh = 0
  /\ pc = "idle"
  /\ call = NoCall
  /\ lifecycle = "Uninitialized"
  /\ cleanups_done = 0
  /\ ws_allocated = NoId
  /\ other = NoOther
  /\ config = DefaultConfig
  /\ scope = [NoScope EXCEPT !.phase = "outside"]
  /\ io = NoIO
  /\ task = NoTask

\* __aenter__ (lines 455-457) returns the controller as it is; create() is
\* for the block to call.
aenter ==
  /\ scope.phase = "outside"
  /\ scope' = [scope EXCEPT !.phase = "inside"]
  /\ UNCHANGED <<ctrl, world, ghost, other, config, io, task>>

\* The block is left between two calls: by the exception of the call that
\* has just raised, or else by running to its end or by an exception of the
\* block's own code.
block_ends ==
  /\ scope.phase = "inside"
  /\ pc = "idle"
  /\ \E exc \in IF call.result # "ok" THEN {call.result} ELSE {None, "ValueError"} :
       scope' = [scope EXCEPT !.phase = "exiting", !.exc = exc,
                              !.by = IF call.result # "ok" THEN call.op ELSE ""]
  /\ UNCHANGED <<ctrl, world, ghost, other, config, io, task>>

\* __aexit__ returning True in place of False.
aexit_suppresses(exc_type) == TRUE

\* __aexit__ (line 462): `return False`, whatever ended the block.
aexit_returns(exc_type) == FALSE

\* __aexit__ (lines 459-462) once its cleanup() is over: an exception of
\* cleanup() would leave in place of the block's; else the block's exception
\* is re-raised unless __aexit__ returned a true value.
aexit ==
  /\ scope.phase = "exiting"
  /\ pc = "idle" /\ call.op = "cleanup" /\ call.scoped = "exiting"
  /\ scope' = [scope EXCEPT
                 !.phase = "left",
                 !.propagated = IF call.result # "ok" THEN call.result
                                ELSE IF aexit_returns(scope.exc) THEN None
                                ELSE scope.exc]
  /\ UNCHANGED <<ctrl, world, ghost, other, config, io, task>>

\* The block calls create() once and edits; leaving the block runs __aexit__,
\* which calls cleanup() once.
NextScope ==
  \/ aenter
  \/ scope.phase = "inside" /\ fresh = 0 /\ create
  \/ ensure_image_available
  \/ build_image
  \/ \E rc \in RepoInputs : prepare_workspace(rc)
  \/ create_container
  \/ scope.phase = "inside" /\ exec("edit")
  \/ block_ends
  \/ scope.phase = "exiting" /\ call.scoped # "exiting" /\ cleanup
  \/ cleanup_rm
  \/ aexit

SpecScope == InitScope /\ [][NextScope]_vars

\* The event loop runs __aexit__ to its end: each wait of cleanup() is
\* bounded by its timeout.
SpecScopeFair ==
  /\ SpecScope
  /\ WF_vars(scope.phase = "exiting" /\ call.scoped # "exiting" /\ cleanup)
  /\ WF_vars(cleanup_rm)
  /\ WF_vars(aexit)

(* ---- two coroutines on one controller ---- *)

\* _create_container up to its first await (lines 141, 183-193): name the
\* instance, build the `docker run` command and spawn it.  A spawn that
\* fails raises at once.  The instance shares the index of the workspace
\* this create() allocated, whatever self._temp_dir holds by now.
create_container_spawn ==
  /\ pc = "start"
  /\ LET k == ws_allocated
         c == [call EXCEPT !.cmds = Append(@, "run"),
                           !.env = docker_run_env(config)]
     IN /\ container_name' = k
        /\ \/ create_container_result(c, k, "spawn_error", FALSE)
           \/ /\ call' = c
              /\ pc' = "run_wait"
              /\ UNCHANGED <<container_id, containers, lifecycle>>
  /\ UNCHANGED <<temp_dir, docker_available, dirs, fresh, cleanups_done,
                 ws_allocated, aside>>

\* _create_container from the end of its wait on (lines 194-222), and the
\* assignment of line 142.
create_container_wait ==
  /\ pc = "run_wait"
  /\ \E run \in wait_for(config.startup_timeout, {"ok", "nonzero", "timeout"}) :
     \E late \in IF run = "timeout" THEN BOOLEAN ELSE {FALSE} :
       create_container_result(call, container_name, run, late)
  /\ UNCHANGED <<container_name, temp_dir, docker_available, dirs, fresh,
                 cleanups_done, ws_allocated, aside>>

\* exec up to its first await (lines 298-310): the guard, the command line
\* naming self.container_id, the spawn.  No lock is taken and no flag is set.
exec_begin(cmd) ==
  /\ pc = "idle"
  /\ LET c == [NewCall("exec") EXCEPT !.cmd = cmd]
     IN IF exec_rejects(container_id)
        THEN /\ call' = Raises(c, "RuntimeError", "ContainerNotCreated")
             /\ pc' = "idle"
             /\ UNCHANGED dirs
        ELSE \/ /\ exec_wait_on(c, cmd, dirs, container_id, {"spawn_error"})
                /\ pc' = "idle"
             \/ /\ call' = [c EXCEPT !.cmds = <<"exec">>, !.target = container_id]
                /\ pc' = "exec_wait"
                /\ UNCHANGED dirs
  /\ UNCHANGED <<ctrl, containers, fresh, lifecycle, cleanups_done,
                 ws_allocated, aside>>

\* exec from the end of its wait on (lines 311-320).
exec_end ==
  /\ pc = "exec_wait"
  /\ exec_wait_on(call, call.cmd, dirs, call.target, {"exit", "signal", "timeout"})
  /\ pc' = "idle"
  /\ UNCHANGED <<ctrl, containers, fresh, lifecycle, cleanups_done,
                 ws_allocated, aside>>

\* The event loop passes control to the other coroutine of this controller:
\* when the running one is suspended at an await, or has returned.  Between
\* mkdtemp (line 136) and the spawn of `docker run` (line 189) create awaits
\* only inside _init_repo, which runs for a non-empty repo_content.
switch_task ==
  /\ pc # "idle" \/ task.pc # "idle"
  /\ pc = "start" => Truthy(call.arg)
  /\ pc' = task.pc
  /\ call' = task.call
  /\ task' = [pc |-> pc, call |-> call]
  /\ UNCHANGED <<ctrl, world, lifecycle, cleanups_done, ws_allocated,
                 other, config, scope, io>>

\* A create() is suspended in the other coroutine.
CreateInFlight == task.call.op = "create" /\ task.pc # "idle"

\* One controller used by two coroutines: it is created once, by one of
\* them; both edit and clean up.
NextTasks ==
  \/ fresh = 0 /\ ~CreateInFlight /\ create
  \/ ensure_image_available
  \/ build_image
  \/ \E rc \in RepoInputs : prepare_workspace(rc)
  \/ create_container_spawn
  \/ create_container_wait
  \/ exec_begin("edit")
  \/ exec_end
  \/ cleanup
  \/ cleanup_rm
  \/ switch_task

SpecTasks == Init /\ [][NextTasks]_vars

(* ---- two controllers ---- *)

\* A second DockerSandbox as __init__ leaves it (lines 73-83), no call made.
NewSandbox ==
  [container_id |-> NoId, container_name |-> NoId, temp_dir |-> NoId,
   docker_available |-> None, pc |-> "idle", call |-> NoCall,
   lifecycle |-> "Uninitialized", cleanups_done |-> 0, ws_allocated |-> NoId]

\* The fields of the controller whose coroutine runs.
Running ==
  [container_id |-> container_id, container_name |-> container_name,
   temp_dir |-> temp_dir, docker_available |-> docker_available,
   pc |-> pc, call |-> call, lifecycle |-> lifecycle,
   cleanups_done |-> cleanups_done, ws_allocated |-> ws_allocated]

\* Two controllers of two tasks on one runtime and one local storage.
Init2 ==
  /\ container_id = NoId
  /\ container_name = NoId
  /\ temp_dir = NoId
  /\ docker_available = None
  /\ containers = [i \in Ids |-> Absent]
  /\ dirs = [i \in Ids |-> NoDir]
  /\ fresh = 0
  /\ pc = "idle"
  /\ call = NoCall
  /\ lifecycle = "Uninitialized"
  /\ cleanups_done = 0
  /\ ws_allocated = NoId
  /\ other = NewSandbox
  /\ config = DefaultConfig
  /\ scope = NoScope
  /\ io = NoIO
  /\ task = NoTask

\* The event loop passes control to the other task: between two calls, or
\* at an await inside one.
switch ==
  /\ container_id' = other.container_id
  /\ container_name' = other.container_name
  /\ temp_dir' = other.temp_dir
  /\ docker_available' = other.docker_available
  /\ pc' = other.pc
  /\ call' = other.call
  /\ lifecycle' = other.lifecycle
  /\ cleanups_done' = other.cleanups_done
  /\ ws_allocated' = other.ws_allocated
  /\ other' = Running
  /\ UNCHANGED <<world, config, scope, io, task>>

\* Each task creates its sandbox once, edits in it, and cleans up.
Next2 ==
  \/ lifecycle = "Uninitialized" /\ ws_allocated = NoId /\ create
  \/ ensure_image_available
  \/ build_image
  \/ \E rc \in RepoInputs : prepare_workspace(rc)
  \/ create_container
  \/ exec("edit")
  \/ cleanup
  \/ cleanup_rm
  \/ switch

Spec2 == Init2 /\ [][Next2]_vars

(* ---- the extractor on its own ---- *)

\* The edited tree: a.py rewritten.
TreeEdited == [TreeAB EXCEPT !["a.py"] = "x=2"]

\* Workspaces a tool run can leave behind: a working tree, with or without a
\* repository, whose history is empty, the baseline, or the baseline and a
\* later commit of the edited tree; and any output directory.
WorkspacesX ==
  {[exists |-> TRUE, files |-> f, repo |-> r, index |-> f, commits |-> h,
    output |-> o, yaml |-> FALSE] :
     f \in {EmptyTree, TreeAB, TreeEdited},
     r \in BOOLEAN,
     h \in {<<>>, <<TreeAB>>, <<TreeAB, TreeEdited>>},
     o \in OutputDirs}

\* One workspace on disk, no controller call made.
InitX ==
  /\ container_id = NoId
  /\ container_name = NoId
  /\ temp_dir = NoId
  /\ docker_available = None
  /\ containers = [i \in Ids |-> Absent]
  /\ \E w \in {x \in WorkspacesX : ~x.repo => x.commits = <<>>} :
       dirs = [i \in Ids |-> IF i = 1 THEN w ELSE NoDir]
  /\ fresh = 0
  /\ pc = "idle"
  /\ call = NoCall
  /\ lifecycle = "Uninitialized"
  /\ cleanups_done = 0
  /\ ws_allocated = NoId
  /\ other = NoOther
  /\ config = DefaultConfig
  /\ scope = NoScope
  /\ io = NoIO
  /\ task = NoTask

\* PatchExtractor(output_dir, instance_id, repo_path).extract(), as the tests
\* call it: either path may be missing (a path that does not exist, None).
extract_call(output_dir, instance_id, repo_path) ==
  /\ pc = "idle"
  /\ call' = [Returns(NewCall("extract"), 0) EXCEPT
                !.xargs = [output_dir |-> output_dir,
                           instance_id |-> instance_id,
                           repo_path |-> repo_path],
                !.patch = extract(IF output_dir = NoId THEN NoOutput
                                  ELSE dirs[output_dir].output,
                                  instance_id,
                                  IF repo_path = NoId THEN NoDir
                                  ELSE dirs[repo_path],
                                  repo_path # NoId)]
  /\ UNCHANGED <<ctrl, world, pc, lifecycle, cleanups_done, ws_allocated, aside>>

NextX ==
  \E output_dir \in {NoId, 1}, instance_id \in InstanceIds, repo_path \in {NoId, 1} :
    extract_call(output_dir, instance_id, repo_path)

SpecX == InitX /\ [][NextX]_vars

(* ---- the reward function ---- *)

\* Lines of a patch text, at most.
MaxLines == 2

\* Paths a patch can touch.
PatchFiles == {"1.txt", "2.txt"}

\* The lines a patch text is made of: `diff --git a/f b/f`, `index <hashes>`,
\* a hunk line `+x` with or without trailing blanks, a line of blanks only.
DiffLine(f) == [kind |-> "diff", file |-> f, trail |-> FALSE]
IndexLine == [kind |-> "index", file |-> "", trail |-> FALSE]
HunkLine(trail) == [kind |-> "hunk", file |-> "", trail |-> trail]
BlankLine == [kind |-> "blank", file |-> "", trail |-> TRUE]
PatchLines ==
  {DiffLine(f) : f \in PatchFiles} \cup
  {IndexLine, HunkLine(FALSE), HunkLine(TRUE), BlankLine}

\* Optional[str]: None, or a text of some lines ("" has none).
NonePatch == [given |-> FALSE, lines |-> <<>>]
EmptyPatch == [given |-> TRUE, lines |-> <<>>]
PatchInputs ==
  {NonePatch} \cup
  {[given |-> TRUE, lines |-> l] :
     l \in UNION {[1..n -> PatchLines] : n \in 0..MaxLines}}

\* `not patch` (lines 44, 74, 97, 155): None and "" are falsy.
falsy(patch) == ~patch.given \/ patch.lines = <<>>

\* line.rstrip() (line 48): trailing blanks go, a line of blanks is left empty.
rstrip(line) == [line EXCEPT !.trail = FALSE]

\* A list as a set (lines 108-109).
set(list) == {list[i] : i \in DOMAIN list}

\* normalize_patch (lines 36-62): the lines stripped of trailing blanks,
\* without the empty ones and without the `index` ones.
normalize_patch(patch) ==
  IF falsy(patch) THEN <<>>
  ELSE LET lines == [i \in 1..Len(patch.lines) |-> rstrip(patch.lines[i])]
           kept(line) == line.kind # "blank" /\ line.kind # "index"
       IN SelectSeq(lines, kept)

\* extract_changed_files (lines 68-84): the b/ path of every `diff --git` line.
extract_changed_files(patch) ==
  IF falsy(patch) THEN <<>>
  ELSE LET is_diff(line) == line.kind = "diff"
           matches == SelectSeq(patch.lines, is_diff)
       IN [i \in 1..Len(matches) |-> matches[i].file]

\* A score as a fraction: 0.2 + 0.3 * k / n is (2n + 3k) / 10n.
Score(num, den) == [num |-> num, den |-> den]

\* The number of files both patches change, as the score.
compare_patches_count(generated, expected) ==
  Score(Cardinality(set(extract_changed_files(generated))
                    \cap set(extract_changed_files(expected))), 1)

\* compare_patches_simple with one score for every partial overlap.
compare_patches_flat(generated, expected) ==
  IF falsy(generated) THEN Score(0, 1)
  ELSE IF normalize_patch(generated) = normalize_patch(expected) THEN Score(1, 1)
  ELSE LET gen_files == set(extract_changed_files(generated))
           exp_files == set(extract_changed_files(expected))
           k == Cardinality(gen_files \cap exp_files)
           n == Cardinality(exp_files)
       IN IF exp_files = {}
          THEN IF gen_files # {} THEN Score(1, 10) ELSE Score(0, 1)
          ELSE IF k = n THEN Score(1, 2)
          ELSE IF k > 0 THEN Score(7, 20)
          ELSE Score(1, 10)

\* compare_patches_simple (lines 87-125).
compare_patches_simple(generated, expected) ==
  IF falsy(generated) THEN Score(0, 1)
  ELSE IF normalize_patch(generated) = normalize_patch(expected) THEN Score(1, 1)
  ELSE LET gen_files == set(extract_changed_files(generated))
           exp_files == set(extract_changed_files(expected))
           k == Cardinality(gen_files \cap exp_files)
           n == Cardinality(exp_files)
       IN IF exp_files = {}
          THEN IF gen_files # {} THEN Score(1, 10) ELSE Score(0, 1)
          ELSE IF k = n THEN Score(1, 2)
          ELSE IF k > 0 THEN Score(2 * n + 3 * k, 10 * n)
          ELSE Score(1, 10)

\* dict.get(key, default) on a reward configuration, whose `keys` are the
\* keys it has.
dict_get(d, key, default) == IF key \in d.keys THEN d[key] ELSE default

\* compute_swe_agent_reward (lines 128-173); extra_info is not read.
compute_swe_agent_reward(generated_patch, reward_model_config) ==
  LET style == dict_get(reward_model_config, "style", "swe_agent")
  IN IF style = "swe_agent"
     THEN compare_patches_simple(
            generated_patch,
            dict_get(reward_model_config, "ground_truth", EmptyPatch))
     ELSE IF style = "swe_bench"
     THEN IF falsy(generated_patch) THEN Score(0, 1)
          ELSE compare_patches_simple(
                 generated_patch,
                 dict_get(reward_model_config, "gold_patch", EmptyPatch))
     ELSE compare_patches_simple(
            generated_patch,
            dict_get(reward_model_config, "ground_truth", EmptyPatch))

\* Reward configurations around a reference patch: with or without a style
\* (a known one or another), the reference under either key or under none.
RewardConfigs(reference) ==
  {[keys |-> st[1] \cup dk, style |-> st[2],
    ground_truth |-> reference, gold_patch |-> reference] :
     st \in {<<{}, "">>, <<{"style"}, "swe_agent">>, <<{"style"}, "swe_bench">>,
             <<{"style"}, "custom">>},
     dk \in {{}, {"ground_truth"}, {"gold_patch"}}}

\* A generated patch and a reward configuration, no reward computed yet.
InitR ==
  /\ container_id = NoId
  /\ container_name = NoId
  /\ temp_dir = NoId
  /\ docker_available = None
  /\ containers = [i \in Ids |-> Absent]
  /\ dirs = [i \in Ids |-> NoDir]
  /\ fresh = 0
  /\ pc = "idle"
  /\ call = NoCall
  /\ lifecycle = "Uninitialized"
  /\ cleanups_done = 0
  /\ ws_allocated = NoId
  /\ other = NoOther
  /\ config = DefaultConfig
  /\ scope = NoScope
  /\ \E generated \in PatchInputs, reference \in PatchInputs :
     \E cfg \in RewardConfigs(reference) :
       io = [fn |-> "compute_swe_agent_reward", generated |-> generated,
             config |-> cfg, done |-> FALSE, ret |-> Score(0, 1)]
  /\ task = NoTask

\* One call of compute_swe_agent_reward on the arguments drawn.
reward ==
  /\ io.fn = "compute_swe_agent_reward"
  /\ ~io.done
  /\ io' = [io EXCEPT !.done = TRUE,
                      !.ret = compute_swe_agent_reward(io.generated, io.config)]
  /\ UNCHANGED <<ctrl, world, ghost, other, config, scope, task>>

NextR == reward

SpecR == InitR /\ [][NextR]_vars

(* ---- the patch comparison on its own ---- *)

\* The paths of the module's self-test (lines 205-216), in the order a diff
\* lists them.
ComparedFiles == <<"1.txt", "2.txt", "other.txt">>

\* The `diff --git` lines of a patch that changes the files in S.
DiffsOf(S) ==
  LET changed(f) == f \in S
      files == SelectSeq(ComparedFiles, changed)
  IN [i \in 1..Len(files) |-> DiffLine(files[i])]

\* Patches to compare: None, "", blanks only, and for every set of files its
\* diff lines alone, followed by a hunk line, or followed by an index line.
ComparedPatches ==
  {NonePatch, [given |-> TRUE, lines |-> <<BlankLine>>]} \cup
  {[given |-> TRUE, lines |-> DiffsOf(S) \o rest] :
     S \in SUBSET {ComparedFiles[i] : i \in DOMAIN ComparedFiles},
     rest \in {<<>>, <<HunkLine(FALSE)>>, <<IndexLine>>}}

\* Two generated patches and the expected one, nothing compared yet.
InitCmp ==
  /\ container_id = NoId
  /\ container_name = NoId
  /\ temp_dir = NoId
  /\ docker_available = None
  /\ containers = [i \in Ids |-> Absent]
  /\ dirs = [i \in Ids |-> NoDir]
  /\ fresh = 0
  /\ pc = "idle"
  /\ call = NoCall
  /\ lifecycle = "Uninitialized"
  /\ cleanups_done = 0
  /\ ws_allocated = NoId
  /\ other = NoOther
  /\ config = DefaultConfig
  /\ scope = NoScope
  /\ \E generated \in ComparedPatches, second \in ComparedPatches,
        expected \in ComparedPatches :
       io = [fn |-> "compare_patches_simple", generated |-> generated,
             second |-> second, expected |-> expected, done |-> FALSE,
             ret |-> Score(0, 1), ret_second |-> Score(0, 1)]
  /\ task = NoTask

\* compare_patches_simple applied to each generated patch and the expected one.
compare ==
  /\ io.fn = "compare_patches_simple"
  /\ ~io.done
  /\ io' = [io EXCEPT
              !.done = TRUE,
              !.ret = compare_patches_simple(io.generated, io.expected),
              !.ret_second = compare_patches_simple(io.second, io.expected)]
  /\ UNCHANGED <<ctrl, world, ghost, other, config, scope, task>>

NextCmp == compare

SpecCmp == InitCmp /\ [][NextCmp]_vars

(* ---- the mock model responder ---- *)

\* max_calls arguments, at most.
MaxCalls == 4

\* The response to the n-th request (lines 83-103), as the words that tell
\* the three texts apart: the first runs `mv`, the second `git add` (and
\* speaks of a commit), every later one calls submit.
response_to(call_count) ==
  CASE call_count = 1 -> {"rename", "bash", "mv"}
    [] call_count = 2 -> {"renamed", "commit", "bash", "git", "add", "diff"}
    [] OTHER -> {"complete", "renamed", "submit"}

\* A responder that never takes a response for a submit.
is_submit_never(response) == FALSE

\* `"submit" in response.lower()` (line 110).
is_submit(response) == "submit" \in response

\* The requests of the agent, told apart by the number of their messages
\* (line 80).
Requests == {1, 2}

\* mock_model_responder(proxy, max_calls) before its first loop test
\* (line 69): no request received, no response sent.
NewResponder(max_calls) ==
  [fn |-> "mock_model_responder", max_calls |-> max_calls, call_count |-> 0,
   at |-> "loop", received |-> <<>>, sent |-> <<>>,
   stopped_by |-> "", ret |-> 0]

InitResponder ==
  /\ container_id = NoId
  /\ container_name = NoId
  /\ temp_dir = NoId
  /\ docker_available = None
  /\ containers = [i \in Ids |-> Absent]
  /\ dirs = [i \in Ids |-> NoDir]
  /\ fresh = 0
  /\ pc = "idle"
  /\ call = NoCall
  /\ lifecycle = "Uninitialized"
  /\ cleanups_done = 0
  /\ ws_allocated = NoId
  /\ other = NoOther
  /\ config = DefaultConfig
  /\ scope = NoScope
  /\ \E max_calls \in 0..MaxCalls : io = NewResponder(max_calls)
  /\ task = NoTask

\* The responder leaves its loop and returns call_count (line 121).
responder_break(r, why) ==
  [r EXCEPT !.at = "returned", !.stopped_by = why, !.ret = r.call_count]

\* The loop test and the wait for a request (lines 71-80), as the records
\* the responder r can be in afterwards: with max_calls requests handled the
\* loop is over; else one of `requests` arrives within 60 seconds and is
\* counted, or the wait times out, or get_request raises.
get_request_of(r, requests) ==
  IF ~(r.call_count < r.max_calls)
  THEN {responder_break(r, "max_calls")}
  ELSE {[r EXCEPT !.at = "send",
                  !.call_count = @ + 1,
                  !.received = Append(@, request)] : request \in requests}
       \cup {responder_break(r, outcome) : outcome \in {"timeout", "error"}}

\* The response to the request in hand and its sending for that request
\* (lines 83-119): after a submit the loop is left; send_response raising
\* leaves it as well.
send_response_of(r) ==
  LET response == response_to(r.call_count)
      request == r.received[Len(r.received)]
      s == [r EXCEPT !.sent = Append(@, [response |-> response,
                                         request |-> request])]
  IN {responder_break(r, "error"),
      IF is_submit(response) THEN responder_break(s, "submit")
                             ELSE [s EXCEPT !.at = "loop"]}

get_request ==
  /\ io.fn = "mock_model_responder"
  /\ io.at = "loop"
  /\ io' \in get_request_of(io, Requests)
  /\ UNCHANGED <<ctrl, world, ghost, other, config, scope, task>>

send_response ==
  /\ io.fn = "mock_model_responder"
  /\ io.at = "send"
  /\ io' \in send_response_of(io)
  /\ UNCHANGED <<ctrl, world, ghost, other, config, scope, task>>

NextResponder ==
  \/ get_request
  \/ send_response

SpecResponder == InitResponder /\ [][NextResponder]_vars

\* The event loop resumes the responder when its await is over: the wait
\* for a request is bounded by its 60 seconds, and send_response returns or
\* raises.
SpecResponderFair ==
  /\ SpecResponder
  /\ WF_vars(get_request)
  /\ WF_vars(send_response)

(* ---- run_verification ---- *)

\* max_calls of the responder that run_verification starts (line 214).
VerifyMaxCalls == 10

\* No responder task yet.
NoResponder == [NewResponder(0) EXCEPT !.at = "none"]

\* run_verification before its first statement (line 124): no temporary
\* directory, no proxy, no agent, no responder task.  `exc` names the step
\* whose exception is propagating, `read_with_agent` the state of the agent
\* when the responder's result was read.
NewVerification ==
  [fn |-> "run_verification", at |-> "mkdtemp", temp_dir |-> "none",
   proxy |-> "none", agent |-> "none", responder |-> NoResponder,
   call_count |-> 0, read_with_agent |-> "none", waited_out |-> FALSE,
   exc |-> "", ret |-> "none"]

InitVerify ==
  /\ container_id = NoId
  /\ container_name = NoId
  /\ temp_dir = NoId
  /\ docker_available = None
  /\ containers = [i \in Ids |-> Absent]
  /\ dirs = [i \in Ids |-> NoDir]
  /\ fresh = 0
  /\ pc = "idle"
  /\ call = NoCall
  /\ lifecycle = "Uninitialized"
  /\ cleanups_done = 0
  /\ ws_allocated = NoId
  /\ other = NoOther
  /\ config = DefaultConfig
  /\ scope = NoScope
  /\ io = NewVerification
  /\ task = NoTask

\* An exception of step `step` leaves run_verification at once: the steps
\* before line 144 are outside the try statement.
verify_raises(v, step) == [v EXCEPT !.at = "raised", !.exc = step]

\* An exception of step `step` inside the try statement (lines 144-271):
\* the finally clause runs before it propagates.
verify_raises_in_try(v, step) == [v EXCEPT !.at = "finally", !.exc = step]

\* Lines 127-137 up to the first await: the import, tempfile.mkdtemp and
\* the files of create_test_repo up to its first subprocess.
verify_mkdtemp ==
  /\ io.fn = "run_verification"
  /\ io.at = "mkdtemp"
  /\ \E outcome \in {"ok", "import_error", "mkdtemp_error", "repo_error"} :
       io' = CASE outcome = "ok" ->
                    [io EXCEPT !.temp_dir = "present", !.at = "create_test_repo"]
               [] outcome = "repo_error" ->
                    verify_raises([io EXCEPT !.temp_dir = "present"],
                                  "create_test_repo")
               [] OTHER -> verify_raises(io, outcome)
  /\ UNCHANGED <<ctrl, world, ghost, other, config, scope, task>>

\* The git commands of create_test_repo (lines 45-60) and the call of
\* proxy.start_server() (lines 140-141): a subprocess that cannot be
\* spawned raises out of run_verification.
verify_create_test_repo ==
  /\ io.fn = "run_verification"
  /\ io.at = "create_test_repo"
  /\ \E outcome \in {"ok", "spawn_error"} :
       io' = IF outcome = "ok"
             THEN [io EXCEPT !.at = "start_server"]
             ELSE verify_raises(io, "create_test_repo")
  /\ UNCHANGED <<ctrl, world, ghost, other, config, scope, task>>

\* proxy.start_server() returns or raises (line 141); after it returned
\* the try statement is entered and the configuration written (lines
\* 144-186), which may raise, up to the spawn of the agent.
verify_start_server ==
  /\ io.fn = "run_verification"
  /\ io.at = "start_server"
  /\ \E outcome \in {"ok", "start_error", "config_error"} :
       io' = CASE outcome = "ok" ->
                    [io EXCEPT !.proxy = "started", !.at = "spawn_agent"]
               [] outcome = "config_error" ->
                    verify_raises_in_try([io EXCEPT !.proxy = "started"],
                                         "config")
               [] OTHER -> verify_raises(io, "start_server")
  /\ UNCHANGED <<ctrl, world, ghost, other, config, scope, task>>

\* asyncio.create_subprocess_exec of the agent (lines 206-211) and
\* asyncio.create_task of the responder (line 214).
verify_spawn_agent ==
  /\ io.fn = "run_verification"
  /\ io.at = "spawn_agent"
  /\ \E outcome \in {"ok", "spawn_error"} :
       io' = IF outcome = "ok"
             THEN [io EXCEPT !.agent = "running",
                             !.responder = NewResponder(VerifyMaxCalls),
                             !.at = "wait_agent"]
             ELSE verify_raises_in_try(io, "spawn_agent")
  /\ UNCHANGED <<ctrl, world, ghost, other, config, scope, task>>

\* The responder task runs while run_verification is suspended; requests
\* come from the agent only, so none arrives once it runs no more.
verify_responder_runs ==
  /\ io.fn = "run_verification"
  /\ io.at \notin {"returned", "raised"}
  /\ \/ /\ io.responder.at = "loop"
        /\ \E r \in get_request_of(io.responder,
                                   IF io.agent = "running" THEN Requests ELSE {}) :
             io' = [io EXCEPT !.responder = r]
     \/ /\ io.responder.at = "send"
        /\ \E r \in send_response_of(io.responder) :
             io' = [io EXCEPT !.responder = r]
  /\ UNCHANGED <<ctrl, world, ghost, other, config, scope, task>>

\* asyncio.wait_for(agent_proc.communicate(), timeout=300.0) (lines
\* 217-230): the agent exits, or the wait runs out and the agent is sent a
\* kill, or the coroutine is cancelled while it waits.
verify_wait_agent ==
  /\ io.fn = "run_verification"
  /\ io.at = "wait_agent"
  /\ \E outcome \in {"exit", "timeout", "cancelled"} :
       io' = CASE outcome = "exit" ->
                    [io EXCEPT !.agent = "exited", !.at = "await_responder"]
               [] outcome = "timeout" ->
                    [io EXCEPT !.agent = "killed", !.waited_out = TRUE,
                               !.at = "agent_wait"]
               [] OTHER -> verify_raises_in_try(io, "wait_agent")
  /\ UNCHANGED <<ctrl, world, ghost, other, config, scope, task>>

\* await agent_proc.wait() after the kill (line 230).
verify_agent_wait ==
  /\ io.fn = "run_verification"
  /\ io.at = "agent_wait"
  /\ io' = [io EXCEPT !.agent = "exited", !.at = "await_responder"]
  /\ UNCHANGED <<ctrl, world, ghost, other, config, scope, task>>

\* call_count = await responder_task (line 233), then `git diff HEAD` is
\* spawned (lines 247-252).
verify_await_responder ==
  /\ io.fn = "run_verification"
  /\ io.at = "await_responder"
  /\ io.responder.at = "returned"
  /\ \E outcome \in {"ok", "spawn_error"} :
       LET v == [io EXCEPT !.call_count = io.responder.ret,
                           !.read_with_agent = io.agent]
       IN io' = IF outcome = "ok"
                THEN [v EXCEPT !.at = "git_diff"]
                ELSE verify_raises_in_try(v, "git_diff")
  /\ UNCHANGED <<ctrl, world, ghost, other, config, scope, task>>

\* The patch is read and `success = call_count > 0` is the result (lines
\* 253-271); the finally clause is entered.
verify_git_diff ==
  /\ io.fn = "run_verification"
  /\ io.at = "git_diff"
  /\ io' = [io EXCEPT !.ret = IF io.call_count > 0 THEN "True" ELSE "False",
                      !.at = "finally"]
  /\ UNCHANGED <<ctrl, world, ghost, other, config, scope, task>>

\* The finally clause (lines 273-283): proxy.stop_server() returns or
\* raises; after it returned shutil.rmtree removes the temporary directory
\* or fails, which is logged only.
verify_finally ==
  /\ io.fn = "run_verification"
  /\ io.at = "finally"
  /\ \E outcome \in {"ok", "stop_error", "rmtree_error"} :
       LET over == IF io.exc = "" THEN "returned" ELSE "raised"
       IN io' = CASE outcome = "ok" ->
                       [io EXCEPT !.proxy = "stopped", !.temp_dir = "removed",
                                  !.at = over]
                  [] outcome = "rmtree_error" ->
                       [io EXCEPT !.proxy = "stopped", !.at = over]
                  [] OTHER ->
                       [io EXCEPT !.at = "raised", !.exc = "stop_server",
                                  !.ret = "none"]
  /\ UNCHANGED <<ctrl, world, ghost, other, config, scope, task>>

NextVerify ==
  \/ verify_mkdtemp
  \/ verify_create_test_repo
  \/ verify_start_server
  \/ verify_spawn_agent
  \/ verify_responder_runs
  \/ verify_wait_agent
  \/ verify_agent_wait
  \/ verify_await_responder
  \/ verify_git_diff
  \/ verify_finally

SpecVerify == InitVerify /\ [][NextVerify]_vars

(* ---- properties ---- *)

\* Call `op` has returned or raised and nothing has been called since.
Done(op) == pc = "idle" /\ call.op = op

\* Call `call` issued runtime subcommand `cmd`.
Issued(cmd) == \E i \in 1..Len(call.cmds) : call.cmds[i] = cmd

\* C1: cleanup() never raises: whatever its steps did (a stop or a removal
\* that failed or timed out, a workspace removal that failed), it returns
\* normally.
C1_CleanupNeverRaises ==
  /\ Done("cleanup") => call.result = "ok"
  /\ (call.op = "cleanup" /\ pc # "idle") =>
        (pc = "cleanup_rm" /\ call.result = "pending")

\* C1 witness: a cleanup() returned after the wait for `docker stop` raised
\* and the removal of the workspace failed.
C1_Witness ==
  /\ Done("cleanup")
  /\ call.cmds = <<"stop">>
  /\ call.fsops = <<"rmtree">>
  /\ ws_allocated # NoId
  /\ dirs[ws_allocated].exists

\* C2: the three steps of cleanup() are attempted independently: whenever
\* stopping the instance was attempted, removing it was attempted too, and no
\* workspace the controller held is left without a removal attempt.
C2_StepsIndependent ==
  Done("cleanup") =>
    /\ Issued("stop") => Issued("rm")
    /\ (temp_dir # NoId /\ dirs[temp_dir].exists) =>
          (\E i \in 1..Len(call.fsops) : call.fsops[i] = "rmtree")

\* C3: a cleanup() called right after a cleanup() returned is a no-op: it
\* returns at once, issues no runtime subcommand, makes no filesystem change
\* and leaves the controller and the runtime as they were.
C3_SecondCleanupNoOp ==
  [][(Done("cleanup") /\ call'.op = "cleanup") =>
       /\ pc' = "idle"
       /\ call'.result = "ok"
       /\ call'.cmds = <<>>
       /\ call'.fsops = <<>>
       /\ UNCHANGED <<ctrl, world>>]_vars

\* C3 witness: a second cleanup() in a row has returned on a controller that
\* had started an instance and whose workspace is still on disk.
C3_Witness ==
  /\ Done("cleanup")
  /\ call.after_cleanup
  /\ \E c \in Ids : containers[c] # Absent
  /\ \E d \in Ids : dirs[d].exists

\* C4: after two cleanup() calls on a controller whose create() allocated a
\* workspace, that workspace's directory no longer exists.
C4_NoResidualWorkspace ==
  (pc = "idle" /\ cleanups_done = 2 /\ ws_allocated # NoId) =>
     ~dirs[ws_allocated].exists

\* C5: once cleanup() has returned, no instance this controller started is
\* still running.
C5_NoInstanceRunning ==
  Done("cleanup") => \A c \in Ids : containers[c] # "running"

\* C6: a create() that finds the runtime unreachable raises the
\* runtime-unavailable error at once: no workspace is allocated or touched,
\* and no image inspection, build or instance start is issued.
C6_UnreachableFailsFirst ==
  (call.op = "create" /\ call.avail = "False") =>
     /\ pc = "idle"
     /\ call.result = "RuntimeError"
     /\ call.detail = "DockerUnavailable"
     /\ ws_allocated = NoId
     /\ call.fsops = <<>>
     /\ \A i \in 1..Len(call.cmds) : call.cmds[i] = "version"

\* C6 witness: a create() probed the runtime, the probe failed, and the call
\* has raised.
C6_Witness ==
  /\ Done("create")
  /\ call.avail = "False"
  /\ call.cmds = <<"version">>
  /\ call.result = "RuntimeError"

\* C7: in create() the image is inspected only after the runtime check
\* passed; an absent image leads to a build attempt; and a failed build makes
\* create() raise with no workspace allocated and no instance start issued.
C7_ImageAfterRuntimeBuildFatal ==
  call.op = "create" =>
    /\ Issued("inspect") =>
         /\ call.avail = "True"
         /\ call.cmds[IF call.cmds[1] = "version" THEN 2 ELSE 1] = "inspect"
    /\ call.image = "False" => (pc = "build_image" \/ call.build # None)
    /\ call.build \notin {None, "ok"} =>
         /\ pc = "idle"
         /\ call.result \notin {"ok", "pending"}
         /\ ws_allocated = NoId
         /\ call.fsops = <<>>
         /\ ~Issued("run")

\* C7 witness: a create() found no image, ran the build, the build exited
\* non-zero and the call has raised.
C7_Witness ==
  /\ Done("create")
  /\ call.image = "False"
  /\ call.build = "nonzero"
  /\ Issued("build")
  /\ call.result = "RuntimeError"

\* C8: after a create() with a non-empty mapping returned successfully, the
\* workspace holds exactly the mapped files with their content and has at
\* least one commit, whatever the local git commands exited with.
C8_SeededAndCommitted ==
  (Done("create") /\ call.result = "ok" /\ Truthy(call.arg)) =>
     /\ dirs[temp_dir].files = call.arg.tree
     /\ dirs[temp_dir].commits # <<>>

\* C9: after a create() with an empty or omitted mapping returned
\* successfully, the workspace has a version-control history with a baseline
\* commit.
C9_EmptyMappingHasBaseline ==
  (Done("create") /\ call.result = "ok" /\ ~Truthy(call.arg)) =>
     /\ dirs[temp_dir].repo
     /\ dirs[temp_dir].commits # <<>>

\* C10: exec() on a controller without a valid handle (never created, only
\* creates that raised, or cleaned up) raises at once and issues no runtime
\* subcommand.
C10_ExecWithoutHandleFailsFast ==
  (call.op = "exec" /\ lifecycle # "Ready") =>
     /\ pc = "idle"
     /\ call.result = "RuntimeError"
     /\ call.detail = "ContainerNotCreated"
     /\ call.cmds = <<>>

\* C10 witness: exec() was called after a cleanup() that removed the
\* instance, and has raised.
C10_Witness ==
  /\ Done("exec")
  /\ lifecycle = "Terminated"
  /\ \E c \in Ids : containers[c] = "removed"
  /\ call.result = "RuntimeError"

\* C11: on a Ready handle, an exec whose command runs longer than its timeout
\* returns the timeout sentinel (exit code -1, empty stdout, the diagnostic in
\* stderr); it does not raise and it does not return a runtime exit code.
C11_TimeoutReturnsSentinel ==
  (Done("exec") /\ call.waited = "timeout") =>
     /\ call.result = "ok"
     /\ call.ret = -1
     /\ call.stdout = ""
     /\ call.stderr = TimedOutText

\* An exec on a Ready handle with a running instance timed out and returned.
C11_Witness ==
  /\ Done("exec")
  /\ call.waited = "timeout"
  /\ lifecycle = "Ready"
  /\ container_id # NoId /\ containers[container_id] = "running"
  /\ call.ret = -1

\* C12: the timeout sentinel is dedicated: an exec that returns has exit code
\* -1 if and only if its command timed out.
C12_SentinelIffTimeout ==
  (Done("exec") /\ call.result = "ok") =>
     (call.ret = -1 <=> call.waited = "timeout")

Completed(c) ==
  /\ c.op = "exec" /\ c.result = "ok" /\ c.waited = "exit"
  /\ container_id # NoId /\ containers[container_id] = "running"

\* C14: within one controller, of two sequential exec calls of which the
\* first completed, the second observes the filesystem effects of the first
\* on the shared workspace (a commit that follows an edit commits the edited
\* content), and a get_patch that follows reads the workspace the exec
\* wrote to.
C14_ExecEffectsObserved ==
  [][/\ (/\ pc = "idle" /\ Completed(call) /\ call.cmd = "edit"
         /\ call'.op = "exec" /\ call'.cmd = "commit"
         /\ call'.waited = "exit" /\ call'.ret = 0)
        => HeadTree(dirs'[container_id])["a.py"] = "x=2"
     /\ (/\ pc = "idle" /\ Completed(call)
         /\ call'.op = "get_patch")
        => call'.xargs.repo_path = container_id]_vars

\* The part of C14 about two exec calls alone.
C14_SecondExecObserves ==
  [][(/\ pc = "idle" /\ Completed(call) /\ call.cmd = "edit"
      /\ call'.op = "exec" /\ call'.cmd = "commit"
      /\ call'.waited = "exit" /\ call'.ret = 0)
     => HeadTree(dirs'[container_id])["a.py"] = "x=2"]_vars

\* The output directory and the workspace an extraction was handed.
PassedOutput(c) ==
  IF c.xargs.output_dir = NoId THEN NoOutput ELSE dirs[c.xargs.output_dir].output
PassedRepo(c) ==
  IF c.xargs.repo_path = NoId THEN NoDir ELSE dirs[c.xargs.repo_path]

\* The artifact files of an extraction that are present and non-empty.
ArtifactsPresent(c) ==
  LET cs == Candidates(c.xargs.instance_id)
  IN {cs[i] : i \in {j \in 1..Len(cs) : Yields(PassedOutput(c), cs[j])}}

\* C15: extraction prefers a declared-artifact file over a version-control
\* diff: whenever a non-empty artifact file exists in the output directory,
\* extract returns the content of an artifact file, also when the workspace
\* has a non-empty diff.
C15_ArtifactPreferred ==
  (Done("extract") /\ ArtifactsPresent(call) # {}) =>
     /\ call.result = "ok"
     /\ call.patch.kind = "file"
     /\ \E n \in ArtifactsPresent(call) :
          call.patch.text = PassedOutput(call).files[n]

\* extract returned the artifact although the workspace differs from its
\* baseline.
C15_Witness ==
  /\ Done("extract")
  /\ ArtifactsPresent(call) # {}
  /\ call.xargs.repo_path # NoId
  /\ HasHistory(PassedRepo(call))
  /\ ChangedSinceBaseline(PassedRepo(call)) # {}
  /\ call.patch.kind = "file"

\* C16: extraction returns the absence signal, not an error, when no artifact
\* file exists and no workspace with a version-control history is available
\* (missing output directory, no repository path).
C16_AbsenceWithoutSources ==
  (/\ Done("extract")
   /\ ArtifactsPresent(call) = {}
   /\ (call.xargs.repo_path = NoId \/ ~HasHistory(PassedRepo(call)))) =>
     /\ call.result = "ok"
     /\ call.patch = NoPatch

\* extract was called with a missing output directory and no repository path.
C16_Witness ==
  /\ Done("extract")
  /\ call.xargs.output_dir = NoId
  /\ call.xargs.repo_path = NoId
  /\ call.patch = NoPatch

\* C17: when no artifact file exists and the workspace has a version-control
\* history, extraction returns the non-empty difference between the working
\* tree and the baseline commit; a file of the baseline that the working tree
\* modifies is named by the patch.
C17_DiffAgainstBaseline ==
  (/\ Done("extract")
   /\ ArtifactsPresent(call) = {}
   /\ call.xargs.repo_path # NoId
   /\ HasHistory(PassedRepo(call))) =>
     LET w == PassedRepo(call)
         changed == {f \in FileNames : w.files[f] # w.commits[1][f]}
     IN /\ changed # {} => (call.patch.kind = "diff" /\ call.patch.names = changed)
        /\ \A f \in FileNames :
             (w.commits[1][f] # Absent /\ w.files[f] # w.commits[1][f])
               => f \in call.patch.names

\* extract returned the diff of a committed file that was modified and
\* committed again after the baseline.
C17_Witness ==
  /\ Done("extract")
  /\ ArtifactsPresent(call) = {}
  /\ call.xargs.repo_path # NoId
  /\ Len(PassedRepo(call).commits) = 2
  /\ PassedRepo(call).files = HeadTree(PassedRepo(call))
  /\ call.patch.kind = "diff"
  /\ "a.py" \in call.patch.names

\* The workspace of the controller was seeded with the two-file mapping
\* (b.py is the last file written) and holds no output directory.
SeededNoArtifact ==
  /\ temp_dir # NoId
  /\ dirs[temp_dir].files["b.py"] = "y=1"
  /\ dirs[temp_dir].output = NoOutput

\* C18: end to end: after a file was seeded and the sandbox created, a
\* command that modifies the file and commits the change ran in it, then
\* extraction returns a non-empty diff that contains the file (the diff is
\* taken against the baseline commit, not the latest one).
C18_CommittedEditExtracted ==
  [][(/\ pc = "idle" /\ Completed(call)
      /\ call.cmd = "edit_commit" /\ call.ret = 0
      /\ SeededNoArtifact
      /\ call'.op = "get_patch")
     => (/\ call'.result = "ok"
         /\ call'.patch.kind = "diff"
         /\ "a.py" \in call'.patch.names)]_vars

\* C19: a no-op task yields the absence signal and not an error: get_patch
\* right after a create with the empty mapping returns None, and so does
\* every get_patch that finds neither an artifact file nor a change of the
\* working tree against its baseline.
C19_NoOpYieldsAbsence ==
  /\ [][(/\ Done("create") /\ call.result = "ok"
         /\ call.arg = [given |-> TRUE, tree |-> EmptyTree]
         /\ call'.op = "get_patch")
        => (call'.result = "ok" /\ call'.patch = NoPatch)]_vars
  /\ [](( /\ Done("get_patch") /\ call.xargs.repo_path # NoId
          /\ ArtifactsPresent(call) = {}
          /\ ~(HasHistory(PassedRepo(call))
               /\ ChangedSinceBaseline(PassedRepo(call)) # {}))
        => (call.result = "ok" /\ call.patch = NoPatch))

\* get_patch returned None on a Ready controller whose workspace is as
\* create left it without seeding.
C19_Witness ==
  /\ Done("get_patch")
  /\ lifecycle = "Ready"
  /\ call.xargs.repo_path # NoId
  /\ dirs[temp_dir] = NewDir
  /\ call.patch = NoPatch

\* The handles, workspaces and instance names two controllers hold differ.
Distinct(a, b) ==
  /\ (a.container_id # NoId /\ b.container_id # NoId)
       => a.container_id # b.container_id
  /\ (a.temp_dir # NoId /\ b.temp_dir # NoId) => a.temp_dir # b.temp_dir
  /\ (a.container_name # NoId /\ b.container_name # NoId)
       => a.container_name # b.container_name

\* C20: two controllers hold distinct handles, distinct workspaces and
\* distinct instance names, and a step of one (of its create, exec or
\* cleanup) changes neither the fields, nor the workspace, nor the instance
\* of the other.
C20_ControllersIndependent ==
  [][/\ Distinct(Running, other)'
     /\ (other' = other) =>
          /\ \A k \in {other.container_id, other.container_name} \ {NoId} :
               containers'[k] = containers[k]
          /\ \A d \in {other.temp_dir} \ {NoId} : dirs'[d] = dirs[d]]_vars

\* Both controllers are Ready and an exec of one has edited its workspace,
\* the other's being as it was seeded.
C20_Witness ==
  /\ lifecycle = "Ready" /\ other.lifecycle = "Ready"
  /\ Done("exec") /\ call.waited = "exit"
  /\ containers[container_id] = "running"
  /\ containers[other.container_id] = "running"
  /\ dirs[temp_dir].files["a.py"] = "x=2"
  /\ dirs[other.temp_dir].files["a.py"] = "x=1"

\* A configuration with a resource limit or a timeout that is not positive.
NonPositive(cfg) ==
  \/ cfg.memory_limit = "0g"
  \/ cfg.cpu_count <= 0
  \/ cfg.startup_timeout <= 0
  \/ cfg.execution_timeout <= 0

\* C21: a create() on a controller whose configuration has a non-positive
\* resource limit or timeout raises before it allocates a workspace and
\* before it asks the runtime to start an instance.
C21_NonPositiveConfigFailsFast ==
  (call.op = "create" /\ NonPositive(config)) =>
     /\ call.fsops = <<>>
     /\ ws_allocated = NoId
     /\ ~Issued("run")
     /\ pc = "idle" => call.result \notin {"ok", "pending"}

\* C23: whatever config.env_vars holds, the environment given to the started
\* instance has the endpoint variable with the URL built from
\* model_proxy_host and model_proxy_port, and has the API-key variable.
C23_EndpointInjected ==
  (call.op = "create" /\ Issued("run")) =>
     /\ "OPENAI_API_BASE" \in DOMAIN call.env
     /\ call.env["OPENAI_API_BASE"] =
          base_url(config.model_proxy_host, config.model_proxy_port)
     /\ "OPENAI_API_KEY" \in DOMAIN call.env

\* How often a create() issued runtime subcommand `cmd`.
Times(cmd) == Cardinality({i \in 1..Len(call.cmds) : call.cmds[i] = cmd})

\* The runtime subcommand a create() issued last; "" when it issued none (the
\* answer of the probe was cached).
LastIssued == IF call.cmds = <<>> THEN "" ELSE call.cmds[Len(call.cmds)]

\* C26, as stated: one create() issues the probe, the image inspection, the
\* build and the start request at most once each, and raises at the first of
\* the four that fails (an inspection fails when its wait times out or its
\* process cannot be spawned), issuing nothing after it.
C26_FailsOnFirstFailure ==
  call.op = "create" =>
    /\ \A cmd \in {"version", "inspect", "build", "run"} : Times(cmd) <= 1
    /\ (\/ call.avail = "False"
        \/ call.inspect \in {"timeout", "spawn_error"}
        \/ call.build \notin {None, "ok"}
        \/ call.run \notin {None, "ok"}) =>
         /\ pc = "idle" /\ call.result \notin {"ok", "pending"}
         /\ LastIssued \in
              {IF call.avail = "False" THEN "" ELSE "version",
               "version", IF call.inspect \in {"timeout", "spawn_error"}
                          THEN "inspect"
                          ELSE IF call.run # None THEN "run" ELSE "build"}

\* C26, amended: one create() issues the probe, the image inspection, the
\* build and the start request at most once each, and raises at the first of
\* the probe, the build and the start that fails, issuing nothing after it;
\* an inspection that does not find the image, one that timed out or could
\* not be spawned included, is not fatal: it is followed by the one build.
C26_SingleAttempt ==
  call.op = "create" =>
    /\ \A cmd \in {"version", "inspect", "build", "run"} : Times(cmd) <= 1
    /\ call.avail = "False" =>
         /\ pc = "idle" /\ call.result \notin {"ok", "pending"}
         /\ Times("inspect") + Times("build") + Times("run") = 0
    /\ call.inspect \notin {None, "ok"} =>
         \/ pc = "build_image" /\ call.result = "pending"
         \/ call.build # None
    /\ call.build \notin {None, "ok"} =>
         /\ pc = "idle" /\ call.result \notin {"ok", "pending"}
         /\ Times("run") = 0
         /\ LastIssued \in {"inspect", "build"}
    /\ call.run \notin {None, "ok"} =>
         /\ pc = "idle" /\ call.result \notin {"ok", "pending"}
         /\ LastIssued = "run"

\* C26 witness: a create() probed, inspected, built and asked for the start
\* once each: the inspection timed out, the build went through, the start
\* was rejected and the call has raised.
C26_Witness ==
  /\ Done("create")
  /\ call.cmds = <<"version", "inspect", "build", "run">>
  /\ call.inspect = "timeout"
  /\ call.run = "nonzero"
  /\ call.result = "RuntimeError"

\* C27: when the wait of exec() or of the instance start was ended by its
\* timeout, the function has returned its timeout result or error and the
\* local process it spawned for the wait is not running any more.
C27_NoProcessLeftRunning ==
  /\ (Done("exec") /\ call.waited = "timeout") =>
        (call.ret = -1 /\ call.proc # "running")
  /\ (Done("create") /\ call.run = "timeout") =>
        (call.result = "RuntimeError" /\ call.proc # "running")

\* C29: a create() that failed because the runtime was unavailable, the
\* build failed or exceeded its ceiling, or the start was rejected or timed
\* out, raised RuntimeError with a diagnostic.
C29_FailuresAreRuntimeError ==
  (/\ Done("create")
   /\ \/ call.avail = "False"
      \/ call.build \in {"no_dockerfile", "nonzero", "timeout"}
      \/ call.run \in {"nonzero", "timeout"})
  => (call.result = "RuntimeError" /\ call.detail # "")

\* C30: once the probe of a controller has answered, no create() probes
\* again; a create() of a controller whose probe found the runtime
\* unreachable raises the runtime-unavailable error without issuing any
\* runtime subcommand, whatever the runtime would answer now.
C30_ProbedOnce ==
  [][(pc = "idle" /\ call'.op = "create") =>
       /\ docker_available # None =>
            (docker_available' = docker_available /\ call'.cmds = <<>>)
       /\ docker_available = "False" =>
            /\ pc' = "idle"
            /\ call'.result = "RuntimeError"
            /\ call'.detail = "DockerUnavailable"
            /\ call'.fsops = <<>>]_vars

\* C30 witness: a create() on a controller whose earlier probe had failed
\* has raised without probing.
C30_Witness ==
  /\ Done("create")
  /\ call.avail = "False"
  /\ call.cmds = <<>>
  /\ call.result = "RuntimeError"

\* C28: a call of exec() or of run_swe_agent(), however it ends, leaves the
\* handle, the workspace binding and the instance name as they were, leaves
\* the controller in its lifecycle state and the instance in the runtime as
\* it was (nothing but `docker exec` is issued, nothing is stopped or
\* killed); and a controller that is Ready accepts exec(), run_swe_agent()
\* and get_patch(), after a timed-out call as after any other.
C28_ExecKeepsBinding ==
  [][/\ (pc = "idle" /\ call'.op \in {"exec", "run_swe_agent"}) =>
          /\ UNCHANGED <<container_id, temp_dir, container_name, lifecycle>>
          /\ UNCHANGED containers
          /\ pc' = "idle"
          /\ \A i \in 1..Len(call'.cmds) : call'.cmds[i] = "exec"
          /\ lifecycle = "Ready" =>
               /\ call'.detail # "ContainerNotCreated"
               /\ call'.result # "TypeError"
     /\ (pc = "idle" /\ call'.op = "get_patch" /\ lifecycle = "Ready") =>
          (call'.result = "ok" /\ call'.xargs.repo_path = temp_dir)]_vars

\* C28 witness: a run_swe_agent() has timed out on a controller that is
\* still Ready and bound, its instance running, and the tool, not killed,
\* has gone on to edit the workspace.
C28_Witness ==
  /\ Done("run_swe_agent") /\ call.waited = "timeout" /\ call.ret = -1
  /\ lifecycle = "Ready"
  /\ container_id # NoId /\ temp_dir = container_id
  /\ containers[container_id] = "running"
  /\ dirs[temp_dir].yaml
  /\ dirs[temp_dir].files["a.py"] = "x=2"

\* C22: when a block that uses the controller with `async with` is left, by
\* its end or by an exception (one raised by create() inside it included),
\* __aexit__ calls cleanup(), which returns, the controller is unbound, and
\* what leaves the `async with` statement is the exception that ended the
\* block, or nothing if the block ran to its end.
C22_CleanupOnEveryExit ==
  /\ [](scope.phase = "left" =>
          /\ Done("cleanup") /\ call.scoped = "exiting" /\ call.result = "ok"
          /\ container_id = NoId /\ temp_dir = NoId
          /\ scope.propagated = scope.exc)
  /\ (scope.phase = "exiting") ~> (scope.phase = "left")

\* C22 witness: the block was ended by the RuntimeError of a create() that
\* had allocated its workspace; cleanup() has run, the workspace is gone and
\* the RuntimeError has left the `async with` statement.
C22_Witness ==
  /\ scope.phase = "left"
  /\ scope.by = "create" /\ scope.exc = "RuntimeError"
  /\ scope.propagated = "RuntimeError"
  /\ ws_allocated # NoId /\ ~dirs[ws_allocated].exists

\* A score within [0.0, 1.0].
InUnit(score) == score.den > 0 /\ 0 <= score.num /\ score.num <= score.den

\* C24: whatever the generated patch (None and "" included) and whatever the
\* reward configuration (style swe_agent, swe_bench, another one, or none),
\* compute_swe_agent_reward returns a score within [0.0, 1.0].
C24_RewardInUnitInterval ==
  (io.fn = "compute_swe_agent_reward" /\ io.done) => InUnit(io.ret)

\* C24 witness: under a style that is not known, a patch that changes one of
\* the two files of the reference was scored 0.35.
C24_Witness ==
  /\ io.fn = "compute_swe_agent_reward" /\ io.done
  /\ "style" \in io.config.keys /\ io.config.style = "custom"
  /\ io.ret = Score(7, 20)

\* C31: the controller owns one instance and one workspace at a time: a
\* create() never takes the place of a handle whose instance is still
\* running, nor of a workspace path whose directory is still on disk, so that
\* a later cleanup() reaches everything the controller ever provisioned.
C31_CreateKeepsThingsReclaimable ==
  [][call'.op = "create" =>
       /\ (container_id' # container_id /\ container_id # NoId) =>
             containers[container_id] # "running"
       /\ (temp_dir' # temp_dir /\ temp_dir # NoId) =>
             ~dirs[temp_dir].exists]_vars

\* exec was admitted: it got as far as spawning `docker exec`.
Admitted(c) == c.op = "exec" /\ c.cmds = <<"exec">>

\* C36: exec() waits at most the timeout its caller passed; without a
\* timeout argument it waits at most the configuration's execution timeout,
\* and a timeout of 0 that was passed counts as not passed: the wait is then
\* bounded by the configuration's execution timeout, and a wait that timed
\* out lasted exactly the bound that applies.
C36_WaitBoundedByTimeout ==
  (pc = "idle" /\ Admitted(call)) =>
     LET t == call.timeout
         passed == t.given /\ t.value # 0
     IN /\ passed => call.elapsed <= t.value
        /\ ~passed => call.elapsed <= config.execution_timeout
        /\ call.waited = "timeout" =>
             call.elapsed = IF passed THEN t.value
                            ELSE config.execution_timeout

\* C36 witness: an exec() that was passed the timeout 0 waited the 1800
\* seconds of the configuration and then returned the timeout sentinel.
C36_Witness ==
  /\ pc = "idle" /\ Admitted(call)
  /\ call.timeout = [given |-> TRUE, value |-> 0]
  /\ call.waited = "timeout" /\ call.ret = -1
  /\ call.elapsed = config.execution_timeout
  /\ call.elapsed > 0

\* Call b is a cleanup() that ran while create() a was in flight with its
\* workspace allocated and its instance not yet started.
Raced(a, b) ==
  /\ a.op = "create"
  /\ b.op = "cleanup" /\ b.during \in {"start", "run_wait"}

\* Such a create() and such a cleanup() have both finished, and nothing was
\* called since.
RaceOver ==
  /\ pc = "idle" /\ task.pc = "idle"
  /\ Raced(call, task.call) \/ Raced(task.call, call)

\* C32: once a create() and a cleanup() that ran during it have both
\* finished, every instance that is running is the one the controller holds
\* the id of, and every workspace on disk is the one it holds the path of:
\* nothing is left that a further cleanup() would not reach.
C32_RaceLeavesNothingUnheld ==
  RaceOver =>
    /\ \A k \in Ids : containers[k] = "running" => container_id = k
    /\ \A d \in Ids : dirs[d].exists => temp_dir = d

\* C33: the controller has no mutual exclusion between exec() calls: an
\* exec() called on a Ready handle while another exec() on that handle is
\* still waiting is admitted like any other: it is not rejected, it spawns
\* its own `docker exec` against the same instance at once, and the call in
\* flight is left as it is.
C33_ConcurrentExecAdmitted ==
  [][(/\ pc = "idle" /\ container_id # NoId
      /\ task.pc = "exec_wait"
      /\ task' = task
      /\ call'.op = "exec") =>
       /\ call'.result # "RuntimeError"
       /\ call'.cmds = <<"exec">>
       /\ call'.target = container_id
       /\ pc' = "exec_wait" \/ call'.waited = "spawn_error"]_vars

\* C33 witness: two exec() calls on the same Ready handle are both waiting
\* for their `docker exec` at the same time.
C33_Witness ==
  /\ pc = "exec_wait" /\ task.pc = "exec_wait"
  /\ container_id # NoId /\ lifecycle = "Ready"
  /\ call.target = container_id /\ task.call.target = container_id
  /\ containers[container_id] = "running"

\* C34: when create() has raised, at whatever step, the controller holds no
\* handle; an exec() called next raises at once without spawning anything,
\* and a cleanup() called next returns with the workspace that create() had
\* allocated removed from disk.
C34_FailedCreateLeavesNothing ==
  [][(Done("create") /\ call.result # "ok") =>
       /\ container_id = NoId
       /\ call'.op = "exec" =>
            (call'.result = "RuntimeError" /\ call'.cmds = <<>>)
       /\ call'.op = "cleanup" =>
            /\ pc' = "idle"
            /\ ws_allocated # NoId => ~dirs'[ws_allocated].exists]_vars

\* C35: get_patch() on a controller that holds no workspace returns None:
\* it does not raise, makes no extractor and touches neither the filesystem
\* nor the runtime.  On a controller that holds one, what it returns is what
\* the extractor yields on the workspace as it is at that call, whatever an
\* earlier get_patch() returned.
C35_PatchRecomputed ==
  Done("get_patch") =>
    /\ temp_dir = NoId =>
         /\ call.result = "ok"
         /\ call.patch = NoPatch
         /\ call.xargs = NoArgs
         /\ call.fsops = <<>> /\ call.cmds = <<>>
    /\ temp_dir # NoId =>
         call.patch = extract(dirs[temp_dir].output, "", dirs[temp_dir], TRUE)

\* C35 witness: a get_patch() has returned a patch other than the patch an
\* earlier get_patch() on this controller had returned.
C35_Witness ==
  /\ Done("get_patch")
  /\ temp_dir # NoId
  /\ call.seen.called /\ call.seen.patch # NoPatch
  /\ call.patch # NoPatch
  /\ call.patch # call.seen.patch

\* The files both patches change, and the files the expected one changes.
Common(g, e) ==
  Cardinality(set(extract_changed_files(g)) \cap set(extract_changed_files(e)))
Wanted(e) == Cardinality(set(extract_changed_files(e)))

\* Scores compared as fractions.
Less(a, b) == a.num * b.den < b.num * a.den

\* The tiers for a generated patch that is not empty and does not equal the
\* expected one after normalization, the expected one changing some file:
\* every expected file changed scores 0.5, some of them a score strictly
\* between 0.2 and 0.5, none of them 0.1.
OverlapTiers(g, e, score) ==
  LET k == Common(g, e)
      n == Wanted(e)
  IN /\ k = n => score = Score(1, 2)
     /\ (0 < k /\ k < n) => (Less(Score(1, 5), score) /\ Less(score, Score(1, 2)))
     /\ k = 0 => score = Score(1, 10)

\* The score grows with the overlap: of two generated patches that each
\* change some but not all of the expected files, the one that changes more
\* of them scores more.
Grows ==
  LET k1 == Common(io.generated, io.expected)
      k2 == Common(io.second, io.expected)
      n == Wanted(io.expected)
      differs(g) == ~falsy(g) /\ normalize_patch(g) # normalize_patch(io.expected)
  IN (/\ differs(io.generated) /\ differs(io.second)
      /\ 0 < k1 /\ k1 < k2 /\ k2 < n) => Less(io.ret, io.ret_second)

\* C37 as stated: an absent or empty generated patch scores 0.0, one equal
\* to the expected patch after normalization 1.0, and every other one
\* scores by the overlap of changed files: 0.5 for a full overlap, strictly
\* between 0.2 and 0.5 and growing for a partial one, 0.1 for none.
C37_TiersAsStated ==
  (io.fn = "compare_patches_simple" /\ io.done) =>
     LET g == io.generated
         e == io.expected
     IN /\ IF falsy(g) THEN io.ret = Score(0, 1)
           ELSE IF normalize_patch(g) = normalize_patch(e) THEN io.ret = Score(1, 1)
           ELSE IF Wanted(e) = 0 THEN io.ret = Score(1, 10)
           ELSE OverlapTiers(g, e, io.ret)
        /\ Grows

\* C37: the same tiers, with the case of an expected patch that changes no
\* file apart: a generated patch that differs from it scores 0.1 if it
\* changes some file and 0.0 if it changes none.
C37_Tiers ==
  (io.fn = "compare_patches_simple" /\ io.done) =>
     LET g == io.generated
         e == io.expected
     IN /\ IF falsy(g) THEN io.ret = Score(0, 1)
           ELSE IF normalize_patch(g) = normalize_patch(e) THEN io.ret = Score(1, 1)
           ELSE IF Wanted(e) = 0
           THEN io.ret = IF extract_changed_files(g) # <<>>
                         THEN Score(1, 10) ELSE Score(0, 1)
           ELSE OverlapTiers(g, e, io.ret)
        /\ Grows

\* C37 witness: against an expected patch that changes three files, a patch
\* that changes one of them scored 0.3 and a patch that changes two of them
\* scored 0.4.
C37_Witness ==
  /\ io.fn = "compare_patches_simple" /\ io.done
  /\ Wanted(io.expected) = 3
  /\ Common(io.generated, io.expected) = 1
  /\ Common(io.second, io.expected) = 2
  /\ io.ret = Score(9, 30)
  /\ io.ret_second = Score(12, 30)

\* C38: the mock model responder always returns, and returns the number of
\* requests it received; it receives at most max_calls requests and at most
\* three, the third response being the first with a submit, after which it
\* receives none; and after a wait for a request that timed out or raised,
\* or a sending that raised, it receives none either.
C38_ResponderTerminates ==
  /\ [](io.fn = "mock_model_responder" =>
          /\ Len(io.received) <= io.max_calls
          /\ Len(io.received) <= 3
          /\ Len(io.sent) <= Len(io.received)
          /\ \A i \in 1..Len(io.sent) :
               /\ "submit" \in io.sent[i].response <=> i = 3
               /\ io.sent[i].request = io.received[i]
          /\ io.stopped_by # "" => io.at = "returned"
          /\ io.at = "returned" =>
               /\ io.ret = Len(io.received)
               /\ io.stopped_by = "submit" <=> Len(io.sent) = 3
               /\ io.stopped_by = "max_calls" =>
                    (Len(io.received) = io.max_calls /\ Len(io.sent) = io.max_calls))
  /\ <>(io.fn = "mock_model_responder" /\ io.at = "returned")

\* C38 witness: with max_calls above three the responder has returned 3,
\* right after the third response, the one with the submit.
C38_Witness ==
  /\ io.fn = "mock_model_responder" /\ io.at = "returned"
  /\ io.max_calls > 3
  /\ io.ret = 3 /\ io.stopped_by = "submit"
  /\ Len(io.sent) = 3 /\ "submit" \in io.sent[3].response

\* C39: when run_verification is over, by a return or by an exception of
\* any step once the temporary directory was made, the model proxy is
\* stopped, the temporary directory is removed and the agent runs no more;
\* and after the agent's wait ran out the agent was killed and waited for
\* when the responder's result was read.
C39_VerificationCleansUp ==
  io.fn = "run_verification" =>
    /\ (io.at \in {"returned", "raised"} /\ io.temp_dir # "none") =>
         /\ io.proxy = "stopped"
         /\ io.temp_dir = "removed"
         /\ io.agent # "running"
    /\ (io.waited_out /\ io.read_with_agent # "none") =>
         io.read_with_agent = "exited"
====
